---- MODULE Spec2Model ----
(***************************************************************************)
(* Model of the http_receiver input (internal/inputs/http_receiver.go):    *)
(* concurrent handleEvents goroutines feed the buffered channel eventChan, *)
(* Read callers drain it, Connect and Close drive the HTTP server.         *)
(***************************************************************************)
EXTENDS Integers, Sequences, FiniteSets, TLC

\* ------------------------------------------------------------------ bounds
\* capacity of eventChan (make(chan []byte, 100) in the source), scaled down
ChanCap == 2
\* the max_batch_size setting (default 100), scaled down
MaxBatchSize == 2
\* length of the longest array body that is submitted
MaxBodyLen == 3
\* number of requests the HTTP clients send in one behaviour
MaxRequests == 2
\* number of Read calls the consumers make in one behaviour
MaxReads == 2
\* the clock stops after this many ticks
MaxTime == 2
\* clock ticks per second (RFC3339 timestamps have one-second resolution)
TicksPerSecond == 2
\* the timeout setting (default 30s), in ticks
ReadTimeout == 1
\* number of Connect calls the host makes in one behaviour
MaxConnects == 2

\* the 10 second wait of server.Shutdown in Close, in ticks
ShutdownTimeout == 1

\* the handleEvents goroutines that can run at the same time, and the
\* goroutines that call Read
Handlers == {1, 2}
Pollers == {1, 2}

\* net/http status codes used by handleEvents
StatusAccepted == 202
StatusBadRequest == 400
StatusMethodNotAllowed == 405
StatusRequestEntityTooLarge == 413
StatusServiceUnavailable == 503

\* ------------------------------------------------------------- JSON values
JInvalid == [t |-> "invalid", uid |-> 0, elems |-> <<>>]
JNull == [t |-> "null", uid |-> 0, elems |-> <<>>]
JNumber == [t |-> "number", uid |-> 0, elems |-> <<>>]
JObject(u) == [t |-> "object", uid |-> u, elems |-> <<>>]
JArray(s) == [t |-> "array", uid |-> 0, elems |-> s]
\* the zero value a receive on a closed, drained channel yields ([]byte(nil))
NilBytes == [t |-> "nil", uid |-> 0, elems |-> <<>>]

\* array bodies: 1..n objects, optionally with one non-object element
ObjectRun(n) == [i \in 1..n |-> JObject(i)]
Bodies ==
    {JInvalid, JNull, JNumber, JObject(1), JArray(<<>>)}
    \cup {JArray(ObjectRun(n)) : n \in 2..MaxBodyLen}
    \cup {JArray(<<JNumber, JObject(1)>>)}

\* the requests the clients send: method, body, and whether reading the body
\* fails (the body of such a request, and of a GET, is never looked at)
Request(m, b, re) == [method |-> m, body |-> b, readErr |-> re]
Requests ==
    {Request("GET", JNull, FALSE), Request("POST", JNull, TRUE)}
    \cup {Request("POST", b, FALSE) : b \in Bodies}

\* json.Unmarshal(body, &events) with events []json.RawMessage
UnmarshalSlice(body) ==
    IF body.t = "array" THEN [err |-> FALSE, events |-> body.elems]
    ELSE IF body.t = "null" THEN [err |-> FALSE, events |-> <<>>]
    ELSE [err |-> TRUE, events |-> <<>>]

\* json.Unmarshal(body, &singleEvent) with singleEvent json.RawMessage
UnmarshalRaw(body) ==
    IF body.t = "invalid" THEN [err |-> TRUE, events |-> <<>>]
    ELSE [err |-> FALSE, events |-> <<body>>]

\* the decoding of handleEvents: array first, single event as the fallback
DecodeEvents(body) ==
    IF ~UnmarshalSlice(body).err THEN UnmarshalSlice(body)
    ELSE UnmarshalRaw(body)

\* time.Now().Format(time.RFC3339): the sub-second part is cut off
FormatRFC3339(t) == t \div TicksPerSecond

\* -------------------------------------------------------------------- state
VARIABLES
    eventChan,   \* the buffered channel: sequence of queued events
    closed,      \* eventChan has been closed
    hs,          \* per handler goroutine: the state of handleEvents
    ps,          \* per consumer: the state of its Read call
    lastSub,     \* the request handleEvents finished last, and its answer
    lastRead,    \* the Read call that returned last, and its result
    enqueued,    \* history: every event sent on eventChan, in order
    delivered,   \* history: every message Read has returned, in order
    requests,    \* number of requests started
    reads,       \* number of Read calls started
    now,         \* the clock, in ticks
    servers,     \* the http.Server of every Connect call, by call number
    server,      \* h.server: 0 is nil, else an index into servers
    gos,         \* the goroutine of every Connect call, by call number
    wg,          \* h.wg: the goroutines running ListenAndServe
    needConnect, \* the host has to call Connect before the next Read
    pcClose,     \* where the Close call stands
    closeDeadline, \* expiry of the shutdown context of Close
    atClose,     \* history: requests started and buffer when Close began
    cfg,         \* the processors of the pipeline and their settings
    inbox,       \* the messages still to be run through the processors
    replies,     \* the responses the lookup endpoint gives, call by call
    cur,         \* the message that is being run through the processors
    upos,        \* position of the next processor for cur (0: no message)
    ran,         \* history: the processors that have run on cur
    last,        \* history: the last Process call, its input and its result
    done,        \* history: the messages that have left the pipeline
    batched,     \* history: the last ProcessBatch call, its batch and result
    found        \* history: the last extractNestedField call and its result

\* the state of the pipeline of processors
pvars == <<cfg, inbox, replies, cur, upos, ran, last, done, batched,
          found>>
\* the state of the receiver
rvars == <<eventChan, closed, hs, ps, lastSub, lastRead, enqueued, delivered,
           requests, reads, now, servers, server, gos, wg, needConnect,
           pcClose, closeDeadline, atClose>>

vars == <<rvars, pvars>>

\* pc: idle, reading (io.ReadAll), queue (the loop over events)
\* srv: the server of the connection, req: number of the request,
\* body: the body read, accepted: the local counter,
\* free0/steady: free slots when queueing began, and whether no other
\* producer and no close has touched the channel since
IdleHandler ==
    [pc |-> "idle", srv |-> 0, req |-> 0, body |-> JNull, accepted |-> 0,
     free0 |-> 0, steady |-> TRUE]
\* code/count: the answer (code 0: none), logged: the count in the
\* "Event queue full" warning (-1: none), panicked: ended in a panic
NoSub ==
    [req |-> 0, rq |-> Request("GET", JNull, FALSE), code |-> 0, count |-> 0,
     logged |-> -1, panicked |-> FALSE, accepted |-> 0, free0 |-> 0,
     steady |-> TRUE]
\* pc: idle, select (blocked in the select of Read)
IdlePoller == [pc |-> "idle", cancelled |-> FALSE, deadline |-> 0]
NoMessage ==
    [body |-> NilBytes, req |-> 0, idx |-> 0, enqAt |-> 0, receivedAt |-> 0]
NoRead == [by |-> 0, result |-> "none", msg |-> NoMessage]

\* ------------------------------------------------- structured message bodies
\* a decoded JSON value: k is its kind, v what it holds (a string, an integer,
\* a function from field names to values, a sequence of values)
VNull == [k |-> "null", v |-> 0]
VStr(x) == [k |-> "str", v |-> x]
VNum(n) == [k |-> "num", v |-> n]
VObj(m) == [k |-> "obj", v |-> m]
VArr(q) == [k |-> "arr", v |-> q]
\* map[string]interface{}: the empty map, a field test, an assignment
EmptyMap == [x \in {} |-> VNull]
Has(m, f) == f \in DOMAIN m
Put(m, f, x) == [y \in DOMAIN m \cup {f} |-> IF y = f THEN x ELSE m[y]]
\* a service.Message: the structured body and the metadata
Message(b, md) == [body |-> b, meta |-> md]
\* what Process returns: the batch (one message or none) and the error text
\* ("": nil), with the lookup URLs' keys it has requested
Result(b, e, c) == [batch |-> b, err |-> e, calls |-> c]

\* no pipeline is configured and no message is in it
NoCfg ==
    [units |-> <<>>, field |-> "", include |-> {}, exclude |-> {},
     assetField |-> <<>>, userField |-> <<>>, tagFields |-> <<>>,
     addTimestamp |-> FALSE, addSource |-> FALSE]
NoCur == Message(VNull, EmptyMap)
NoLast ==
    [unit |-> "", in |-> NoCur, out |-> Result(<<>>, "", <<>>), served |-> <<>>]
\* no ProcessBatch call has been made
NoBatched == [called |-> FALSE, in |-> <<>>, out |-> <<>>, err |-> ""]
\* no extractNestedField call has been made
NoFound == [called |-> FALSE, value |-> ""]

\* the receiver as its constructor returns it
ReceiverInit ==
    /\ eventChan = <<>>
    /\ closed = FALSE
    /\ hs = [h \in Handlers |-> IdleHandler]
    /\ ps = [p \in Pollers |-> IdlePoller]
    /\ lastSub = NoSub
    /\ lastRead = NoRead
    /\ enqueued = <<>>
    /\ delivered = <<>>
    /\ requests = 0
    /\ reads = 0
    /\ now = 0
    /\ servers = <<>>
    /\ server = 0
    /\ gos = <<>>
    /\ wg = 0
    /\ needConnect = TRUE
    /\ pcClose = "idle"
    /\ closeDeadline = 0
    /\ atClose = [requests |-> 0, buffer |-> <<>>]

\* the receiver with no pipeline behind it
Init ==
    /\ ReceiverInit
    /\ cfg = NoCfg
    /\ inbox = <<>>
    /\ replies = <<>>
    /\ cur = NoCur
    /\ upos = 0
    /\ ran = <<>>
    /\ last = NoLast
    /\ done = <<>>
    /\ batched = NoBatched
    /\ found = NoFound

\* ------------------------------------------------------------ handleEvents
\* a handler that has taken a request and not yet answered it
Active(h) == hs[h].pc \in {"reading", "queue"}

\* the events of the request a handler works on
EventsOf(h) == DecodeEvents(hs[h].body).events

\* the server accepts a connection and starts handleEvents on the request;
\* the body is still being read (io.ReadAll)
Accept(h, s) ==
    /\ requests < MaxRequests
    /\ hs[h].pc = "idle"
    /\ s \in 1..Len(servers)
    /\ servers[s] = "serving"
    /\ hs' = [hs EXCEPT ![h] = [IdleHandler EXCEPT !.pc = "reading", !.srv = s,
                                                   !.req = requests + 1]]
    /\ requests' = requests + 1
    /\ UNCHANGED <<eventChan, closed, ps, lastSub, lastRead, enqueued,
                   delivered, reads, now, servers, server, gos, wg, needConnect,
                   pcClose, closeDeadline, atClose,
                   pvars>>

\* handleEvents returns with the answer code and count
Answer(st, rq, code, count) ==
    [NoSub EXCEPT !.req = st.req, !.rq = rq, !.code = code, !.count = count,
                  !.accepted = st.accepted, !.free0 = st.free0,
                  !.steady = st.steady]

\* a variant of Verdict that does not check the batch size
VerdictNoLimit(rq) ==
    LET d == DecodeEvents(rq.body) IN
    IF rq.method # "POST" THEN StatusMethodNotAllowed
    ELSE IF rq.readErr THEN StatusBadRequest
    ELSE IF d.err THEN StatusBadRequest
    ELSE IF Len(d.events) = 0 THEN StatusAccepted
    ELSE 0

\* the answer handleEvents gives without entering the queueing loop (0: it
\* enters the loop): method check, body read, decoding, batch size check; a
\* body that holds no event passes the loop at once and is answered 202
Verdict(rq) ==
    LET d == DecodeEvents(rq.body) IN
    IF rq.method # "POST" THEN StatusMethodNotAllowed
    ELSE IF rq.readErr THEN StatusBadRequest
    ELSE IF d.err THEN StatusBadRequest
    ELSE IF Len(d.events) > MaxBatchSize THEN StatusRequestEntityTooLarge
    ELSE IF Len(d.events) = 0 THEN StatusAccepted
    ELSE 0

\* handleEvents up to the queueing loop.
\* (The "received" timestamp of the 202 body is left out.)
Decode(h, rq) ==
    /\ hs[h].pc = "reading"
    /\ LET st == hs[h]
           code == Verdict(rq)
       IN
       IF code # 0
       THEN /\ hs' = [hs EXCEPT ![h] = IdleHandler]
            /\ lastSub' = Answer(st, rq, code, 0)
       ELSE /\ hs' = [hs EXCEPT ![h] =
                   [st EXCEPT !.pc = "queue", !.body = rq.body,
                              !.steady = TRUE,
                              !.free0 = IF closed THEN 0
                                        ELSE ChanCap - Len(eventChan)]]
            /\ lastSub' = lastSub
    /\ UNCHANGED <<eventChan, closed, ps, lastRead, enqueued, delivered,
                   requests, reads, now, servers, server, gos, wg, needConnect,
                   pcClose, closeDeadline, atClose,
                   pvars>>

\* the handlers other than h that are queueing see a producer enqueue, or
\* the channel being closed
Disturb(f, h) ==
    [g \in Handlers |->
        IF g # h /\ f[g].pc = "queue"
        THEN [f[g] EXCEPT !.steady = FALSE] ELSE f[g]]

\* history: an event in the channel, with the second in which it was sent
Stamp(ev) ==
    [body |-> ev.body, req |-> ev.req, idx |-> ev.idx,
     enqAt |-> FormatRFC3339(now)]

\* history: the event without the stamp
Unstamp(ev) == [body |-> ev.body, req |-> ev.req, idx |-> ev.idx]

\* the event the loop of handler h is at
NextEvent(h) ==
    [body |-> EventsOf(h)[hs[h].accepted + 1], req |-> hs[h].req,
     idx |-> hs[h].accepted + 1]

\* the request handler h is queueing
Queued(h) == Request("POST", hs[h].body, FALSE)

\* case h.eventChan <- []byte(event): accepted++; after the last event of the
\* request the loop ends and the 202 answer is written
SendEvent(h) ==
    LET st1 == [hs[h] EXCEPT !.accepted = hs[h].accepted + 1] IN
    /\ eventChan' = Append(eventChan, Stamp(NextEvent(h)))
    /\ enqueued' = Append(enqueued, NextEvent(h))
    /\ IF st1.accepted = Len(EventsOf(h))
       THEN /\ hs' = Disturb([hs EXCEPT ![h] = IdleHandler], h)
            /\ lastSub' = Answer(st1, Queued(h), StatusAccepted, st1.accepted)
       ELSE /\ hs' = Disturb([hs EXCEPT ![h] = st1], h)
            /\ lastSub' = lastSub

\* a variant of QueueFull that skips the event and goes on counting
QueueFullSilent(h) ==
    LET st1 == [hs[h] EXCEPT !.accepted = hs[h].accepted + 1] IN
    /\ UNCHANGED <<eventChan, enqueued>>
    /\ IF st1.accepted = Len(EventsOf(h))
       THEN /\ hs' = [hs EXCEPT ![h] = IdleHandler]
            /\ lastSub' = Answer(st1, Queued(h), StatusAccepted, st1.accepted)
       ELSE /\ hs' = [hs EXCEPT ![h] = st1]
            /\ lastSub' = lastSub

\* a variant of QueueFull that sends beyond the capacity
QueueFullOverflow(h) == SendEvent(h)

\* a variant of QueueFull that waits for a free slot (a blocking send)
QueueFullWait(h) == Len(eventChan) < ChanCap /\ SendEvent(h)

\* a variant of QueueFull that takes the events of the request back
QueueFullRollback(h) ==
    /\ hs' = [hs EXCEPT ![h] = IdleHandler]
    /\ lastSub' = [Answer(hs[h], Queued(h), StatusServiceUnavailable, 0)
                      EXCEPT !.logged = hs[h].accepted]
    /\ eventChan' = SelectSeq(eventChan, LAMBDA e : e.req # hs[h].req)
    /\ UNCHANGED enqueued

\* default: the channel is full; the warning logs the count, the answer is
\* 503 and the handler returns
QueueFull(h) ==
    /\ hs' = [hs EXCEPT ![h] = IdleHandler]
    /\ lastSub' = [Answer(hs[h], Queued(h), StatusServiceUnavailable, 0)
                      EXCEPT !.logged = hs[h].accepted]
    /\ UNCHANGED <<eventChan, enqueued>>

\* a send on a closed channel panics; net/http recovers the panic of the
\* handler and drops the connection without an answer
SendOnClosed(h) ==
    /\ hs' = [hs EXCEPT ![h] = IdleHandler]
    /\ lastSub' = [Answer(hs[h], Queued(h), 0, 0) EXCEPT !.panicked = TRUE]
    /\ UNCHANGED <<eventChan, enqueued>>

\* one pass of the queueing loop: a send on eventChan that does not block
\* (select with a default case)
LoopStep(h) ==
    /\ hs[h].pc = "queue"
    /\ IF closed THEN SendOnClosed(h)
       ELSE IF Len(eventChan) < ChanCap THEN SendEvent(h)
       ELSE QueueFull(h)
    /\ UNCHANGED <<closed, ps, lastRead, delivered, requests, reads, now,
                   servers, server, gos, wg, needConnect, pcClose, closeDeadline,
                   atClose,
                   pvars>>

\* -------------------------------------------------------------------- Read
\* a consumer calls Read(ctx); c tells whether ctx is cancelled already.
\* time.After(h.timeout) is armed when the select is entered.
ReadCall(p, c) ==
    /\ reads < MaxReads
    /\ ps[p].pc = "idle"
    /\ ~needConnect
    /\ ps' = [ps EXCEPT ![p] = [pc |-> "select", cancelled |-> c,
                                deadline |-> now + ReadTimeout]]
    /\ reads' = reads + 1
    /\ UNCHANGED <<eventChan, closed, hs, lastSub, lastRead, enqueued,
                   delivered, requests, now, servers, server, gos, wg, needConnect,
                   pcClose, closeDeadline, atClose,
                   pvars>>

\* the value a receive on eventChan yields: the head of the buffer, or the
\* zero value once the channel is closed and drained
Receive ==
    IF Len(eventChan) > 0 THEN Head(eventChan)
    ELSE [body |-> NilBytes, req |-> 0, idx |-> 0, enqAt |-> 0]

\* the message Read builds from a received value: its bytes and the
\* metadata http.received_at
NewMessage(ev) ==
    [body |-> ev.body, req |-> ev.req, idx |-> ev.idx, enqAt |-> ev.enqAt,
     receivedAt |-> FormatRFC3339(now)]

\* the error Read returns with a result
NoError == "nil"
ErrNotConnected == "service.ErrNotConnected"
ErrorOf(result) ==
    IF result = "timeout" THEN ErrNotConnected
    ELSE IF result = "cancelled" THEN "ctx.Err()"
    ELSE NoError

\* Read returns
Return(p, result) == [by |-> p, result |-> result, msg |-> NoMessage]

\* a variant of ReadEvent that leaves the event in the channel
ReadEventPeek(p) ==
    /\ ps[p].pc = "select"
    /\ Len(eventChan) > 0 \/ closed
    /\ ps' = [ps EXCEPT ![p] = IdlePoller]
    /\ lastRead' = [Return(p, "msg") EXCEPT !.msg = NewMessage(Receive)]
    /\ delivered' = Append(delivered, Unstamp(Receive))
    /\ UNCHANGED <<eventChan, closed, hs, lastSub, enqueued, requests, reads,
                   now, servers, server, gos, wg, needConnect, pcClose,
                   closeDeadline, atClose,
                   pvars>>

\* a variant of ReadEvent that takes the newest event of the channel
ReadEventNewest(p) ==
    LET ev == IF Len(eventChan) > 0 THEN eventChan[Len(eventChan)]
              ELSE Receive IN
    /\ ps[p].pc = "select"
    /\ Len(eventChan) > 0 \/ closed
    /\ ps' = [ps EXCEPT ![p] = IdlePoller]
    /\ lastRead' = [Return(p, "msg") EXCEPT !.msg = NewMessage(ev)]
    /\ delivered' = Append(delivered, Unstamp(ev))
    /\ eventChan' = IF Len(eventChan) > 0
                    THEN SubSeq(eventChan, 1, Len(eventChan) - 1)
                    ELSE eventChan
    /\ UNCHANGED <<closed, hs, lastSub, enqueued, requests, reads, now,
                   servers, server, gos, wg, needConnect, pcClose, closeDeadline, atClose,
                   pvars>>

\* case event := <-h.eventChan
ReadEvent(p) ==
    /\ ps[p].pc = "select"
    /\ Len(eventChan) > 0 \/ closed
    /\ ps' = [ps EXCEPT ![p] = IdlePoller]
    /\ lastRead' = [Return(p, "msg") EXCEPT !.msg = NewMessage(Receive)]
    /\ delivered' = Append(delivered, Unstamp(Receive))
    /\ eventChan' = IF Len(eventChan) > 0 THEN Tail(eventChan) ELSE eventChan
    /\ UNCHANGED <<closed, hs, lastSub, enqueued, requests, reads, now,
                   servers, server, gos, wg, needConnect, pcClose, closeDeadline, atClose,
                   pvars>>

\* case <-time.After(h.timeout): returns service.ErrNotConnected, on which
\* the host calls Connect again before the next Read. The select takes any
\* case that is ready: once the timer has fired this case can be taken
\* whether or not the channel holds an event or is closed
ReadTimedOut(p) ==
    /\ ps[p].pc = "select"
    /\ now >= ps[p].deadline
    /\ ps' = [ps EXCEPT ![p] = IdlePoller]
    /\ lastRead' = Return(p, "timeout")
    /\ needConnect' = TRUE
    /\ UNCHANGED <<eventChan, closed, hs, lastSub, enqueued, delivered,
                   requests, reads, now, servers, server, gos, wg, pcClose,
                   closeDeadline, atClose,
                   pvars>>

\* case <-ctx.Done(): returns ctx.Err()
ReadCancelled(p) ==
    /\ ps[p].pc = "select"
    /\ ps[p].cancelled
    /\ ps' = [ps EXCEPT ![p] = IdlePoller]
    /\ lastRead' = Return(p, "cancelled")
    /\ UNCHANGED <<eventChan, closed, hs, lastSub, enqueued, delivered,
                   requests, reads, now, servers, server, gos, wg, needConnect,
                   pcClose, closeDeadline, atClose,
                   pvars>>

\* the caller cancels the context of a Read that is waiting
Cancel(p) ==
    /\ ps[p].pc = "select"
    /\ ~ps[p].cancelled
    /\ ps' = [ps EXCEPT ![p] = [@ EXCEPT !.cancelled = TRUE]]
    /\ UNCHANGED <<eventChan, closed, hs, lastSub, lastRead, enqueued,
                   delivered, requests, reads, now, servers, server, gos, wg,
                   needConnect, pcClose, closeDeadline, atClose,
                   pvars>>

\* time passes
Tick ==
    /\ now < MaxTime
    /\ now' = now + 1
    /\ UNCHANGED <<eventChan, closed, hs, ps, lastSub, lastRead, enqueued,
                   delivered, requests, reads, servers, server, gos, wg,
                   needConnect, pcClose, closeDeadline, atClose,
                   pvars>>

\* --------------------------------------------------------- Connect, Close
\* some server holds the listening address
AddressInUse == \E s \in 1..Len(servers) : servers[s] = "serving"

\* Connect: a new http.Server replaces h.server, h.wg.Add(1), and a goroutine
\* is started that will call ListenAndServe; Connect returns at once
Connect ==
    /\ needConnect
    /\ pcClose = "idle"
    /\ Len(servers) < MaxConnects
    /\ servers' = Append(servers, "new")
    /\ server' = Len(servers) + 1
    /\ gos' = Append(gos, [pc |-> "start", srv |-> 0])
    /\ wg' = wg + 1
    /\ needConnect' = FALSE
    /\ UNCHANGED <<eventChan, closed, hs, ps, lastSub, lastRead, enqueued,
                   delivered, requests, reads, now, pcClose, closeDeadline, atClose,
                   pvars>>

\* the goroutine of Connect call g. Its first step reads h.server, without
\* synchronisation: the server of its own call or of a later one (s), and
\* calls ListenAndServe on it. That returns at once when the server has been
\* shut down, when the address is held by a server of this receiver or by
\* another process (~free); else the server listens and the goroutine stays
\* in the call. Its last step: the server has been shut down, ListenAndServe
\* returns. A goroutine that returns runs h.wg.Done().
ListenAndServe(g, s, free) ==
    /\ g \in 1..Len(gos)
    /\ \/ /\ gos[g].pc = "start"
          /\ s \in g..server
          /\ IF servers[s] # "stopped" /\ ~AddressInUse /\ free
             THEN /\ servers' = [servers EXCEPT ![s] = "serving"]
                  /\ gos' = [gos EXCEPT ![g] = [pc |-> "serve", srv |-> s]]
                  /\ wg' = wg
             ELSE /\ gos' = [gos EXCEPT ![g] = [pc |-> "done", srv |-> s]]
                  /\ wg' = wg - 1
                  /\ servers' = servers
       \/ /\ gos[g].pc = "serve"
          /\ s = gos[g].srv
          /\ free
          /\ servers[s] = "stopped"
          /\ gos' = [gos EXCEPT ![g] = [pc |-> "done", srv |-> s]]
          /\ wg' = wg - 1
          /\ servers' = servers
    /\ UNCHANGED <<eventChan, closed, hs, ps, lastSub, lastRead, enqueued,
                   delivered, requests, reads, now, server, needConnect,
                   pcClose, closeDeadline, atClose,
                   pvars>>

\* Close begins: server.Shutdown on h.server marks it shut down and closes
\* its listener, on which its ListenAndServe returns, and then waits for its
\* connections. Close
\* can be called again once it has returned ("done"); the second call runs
\* the same code ("shutdown2", "wait2")
CloseCall ==
    /\ pcClose \in {"idle", "done"}
    /\ IF server = 0
       THEN /\ pcClose' = IF pcClose = "idle" THEN "wait" ELSE "wait2"
            /\ closeDeadline' = closeDeadline
            /\ UNCHANGED servers
       ELSE /\ pcClose' = IF pcClose = "idle" THEN "shutdown" ELSE "shutdown2"
            /\ closeDeadline' = now + ShutdownTimeout
            /\ servers' = [servers EXCEPT ![server] = "stopped"]
    /\ atClose' = IF pcClose = "idle"
                  THEN [requests |-> requests, buffer |-> eventChan]
                  ELSE atClose
    /\ UNCHANGED <<eventChan, closed, hs, ps, lastSub, lastRead, enqueued,
                   delivered, requests, reads, now, server, gos, wg,
                   needConnect,
                   pvars>>

\* server.Shutdown returns: every connection of h.server is idle, or the
\* shutdown context has expired with handlers still running
ShutdownReturn ==
    /\ pcClose \in {"shutdown", "shutdown2"}
    /\ \/ \A h \in Handlers : ~(Active(h) /\ hs[h].srv = server)
       \/ now >= closeDeadline
    /\ pcClose' = IF pcClose = "shutdown" THEN "wait" ELSE "wait2"
    /\ UNCHANGED <<eventChan, closed, hs, ps, lastSub, lastRead, enqueued,
                   delivered, requests, reads, now, servers, server, gos, wg,
                   needConnect, closeDeadline, atClose,
                   pvars>>

\* h.wg.Wait() returns once no ListenAndServe goroutine is left, then
\* close(h.eventChan), which panics when the channel is closed already
CloseChan ==
    /\ pcClose \in {"wait", "wait2"}
    /\ wg = 0
    /\ IF closed
       THEN /\ pcClose' = "panicked"
            /\ UNCHANGED <<closed, hs>>
       ELSE /\ closed' = TRUE
            /\ pcClose' = "done"
            /\ hs' = Disturb(hs, 0)
    /\ UNCHANGED <<eventChan, ps, lastSub, lastRead, enqueued, delivered,
                   requests, reads, now, servers, server, gos, wg, needConnect,
                   closeDeadline, atClose,
                   pvars>>

\* the steps of the handlers in H and of the consumers in P
Serve(H, P) ==
    \/ \E h \in H, s \in 1..MaxConnects : Accept(h, s)
    \/ \E h \in H, rq \in Requests : Decode(h, rq)
    \/ \E h \in H : LoopStep(h)
    \/ \E p \in P, c \in BOOLEAN : ReadCall(p, c)
    \/ \E p \in P : ReadEvent(p)
    \/ \E p \in P : ReadCancelled(p)
    \/ \E p \in P : Cancel(p)

\* the steps that depend on the clock
Timed(P) ==
    \/ \E p \in P : ReadTimedOut(p)
    \/ Tick

\* the steps of Close
Closing ==
    \/ CloseCall
    \/ ShutdownReturn
    \/ CloseChan

\* the complete receiver
Next ==
    \/ Serve(Handlers, Pollers) \/ Timed(Pollers) \/ Connect \/ Closing
    \/ \E g, s \in 1..MaxConnects, free \in BOOLEAN : ListenAndServe(g, s, free)
Spec == Init /\ [][Next]_vars

\* the receiver in service: concurrent handlers and consumers, no shutdown,
\* everything within one tick of the clock
NextServe ==
    \/ Serve(Handlers, Pollers) \/ Connect
    \/ \E g, s \in 1..MaxConnects, free \in BOOLEAN : ListenAndServe(g, s, free)
SpecServe == Init /\ [][NextServe]_vars

\* the whole life of the receiver with one handler and one consumer: timeouts,
\* reconnects and Close
NextLife ==
    \/ Serve({1}, {1}) \/ Timed({1}) \/ Connect \/ Closing
    \/ \E g, s \in 1..MaxConnects, free \in BOOLEAN : ListenAndServe(g, s, free)
SpecLife == Init /\ [][NextLife]_vars

\* one consumer that calls Read again and again and never cancels, with
\* concurrent handlers, the clock and the host's reconnects; no Close
NextPoll ==
    \/ \E h \in Handlers, s \in 1..MaxConnects : Accept(h, s)
    \/ \E h \in Handlers, rq \in Requests : Decode(h, rq)
    \/ \E h \in Handlers : LoopStep(h)
    \/ ReadCall(1, FALSE)
    \/ ReadEvent(1)
    \/ ReadTimedOut(1)
    \/ Tick
    \/ Connect
    \/ \E g, s \in 1..MaxConnects, free \in BOOLEAN : ListenAndServe(g, s, free)
\* the consumer keeps calling Read; a select with a ready case proceeds; the
\* host calls Connect after service.ErrNotConnected
PollFairness ==
    /\ WF_vars(ReadCall(1, FALSE))
    /\ WF_vars(ReadEvent(1))
    /\ WF_vars(Connect)
SpecPoll == Init /\ [][NextPoll]_vars /\ PollFairness

\* ------------------------------------------------------------------ claims
Range(q) == {q[i] : i \in DOMAIN q}
Count(q, e) == Cardinality({i \in DOMAIN q : q[i] = e})

\* the events request r has sent on the channel, in the order sent
Mine(r) == SelectSeq(enqueued, LAMBDA e : e.req = r)
\* the events a request body decodes to
EventsIn(rq) == DecodeEvents(rq.body).events
\* the events of request r in array order, as they are sent
Sent(rq, r, n) == [i \in 1..n |-> [body |-> EventsIn(rq)[i], req |-> r, idx |-> i]]
\* a finished POST whose body was read and decoded
Submitted(sub) ==
    /\ sub.req # 0
    /\ sub.rq.method = "POST"
    /\ ~sub.rq.readErr
    /\ ~DecodeEvents(sub.rq.body).err
\* one JSON object, or an array of JSON objects
ObjectOrObjects(b) ==
    \/ b.t = "object"
    \/ b.t = "array" /\ \A i \in DOMAIN b.elems : b.elems[i].t = "object"

\* C1: an object body with a free slot is enqueued as one event and answered
\* 202 count=1; an array of N <= max_batch_size objects with N free slots and
\* no competing producer is enqueued as N events and answered 202 count=N;
\* every 202 answer counts exactly the events that submission enqueued, and
\* they are all its events
C1_AcceptsExactly ==
    LET n == Len(EventsIn(lastSub.rq)) IN
    /\ ( /\ Submitted(lastSub)
         /\ ObjectOrObjects(lastSub.rq.body)
         /\ n <= MaxBatchSize
         /\ lastSub.free0 >= n
         /\ lastSub.steady )
       => ( /\ lastSub.code = StatusAccepted
            /\ lastSub.count = n
            /\ lastSub.rq.body.t = "object" => lastSub.count = 1 )
    /\ lastSub.code = StatusAccepted
       => ( /\ lastSub.count = n
            /\ Mine(lastSub.req) = Sent(lastSub.rq, lastSub.req, n) )

\* a batch of two objects was answered 202 count=2 with two free slots
C1_Witness ==
    /\ lastSub.code = StatusAccepted
    /\ lastSub.count = 2
    /\ lastSub.rq.body.t = "array"
    /\ lastSub.free0 >= 2
    /\ lastSub.steady
    /\ Len(Mine(lastSub.req)) = 2

\* more events than max_batch_size
Oversized(rq) ==
    /\ rq.method = "POST"
    /\ ~rq.readErr
    /\ ~DecodeEvents(rq.body).err
    /\ Len(EventsIn(rq)) > MaxBatchSize

C2_Answer413 ==
    /\ (lastSub.req # 0 /\ Oversized(lastSub.rq))
       => (lastSub.code = StatusRequestEntityTooLarge /\ Mine(lastSub.req) = <<>>)
    /\ \A h \in Handlers :
          hs[h].pc = "queue" => Len(EventsOf(h)) <= MaxBatchSize

C2_BufferKept ==
    \A h \in Handlers, rq \in Requests :
        (Decode(h, rq) /\ Oversized(rq))
        => (eventChan' = eventChan /\ enqueued' = enqueued)

\* C2: a submission that decodes to more than max_batch_size events is
\* answered 413, leaves the buffer exactly as it was and none of its events
\* is ever enqueued, whatever the free capacity
C2_BatchTooLarge == []C2_Answer413 /\ [][C2_BufferKept]_vars

\* an oversized batch was answered 413 while the buffer was empty
C2_Witness ==
    /\ lastSub.req # 0
    /\ Oversized(lastSub.rq)
    /\ lastSub.code = StatusRequestEntityTooLarge
    /\ Len(eventChan) = 0

\* C3: with the buffer holding ChanCap events, the submission of one event
\* is answered 503 and the buffer holds the same events afterwards
C3_QueueFull ==
    [][\A h \in Handlers :
          ( /\ LoopStep(h)
            /\ Len(EventsOf(h)) = 1
            /\ ~closed
            /\ Len(eventChan) = ChanCap )
          => ( /\ lastSub'.req = hs[h].req
               /\ lastSub'.code = StatusServiceUnavailable
               /\ eventChan' = eventChan )]_vars

\* a submission of one event was answered 503 and the buffer is full
C3_Witness ==
    /\ Submitted(lastSub)
    /\ Len(EventsIn(lastSub.rq)) = 1
    /\ lastSub.code = StatusServiceUnavailable
    /\ Len(eventChan) = ChanCap

C4_Bounded ==
    /\ Len(eventChan) <= ChanCap
    /\ \A h \in Handlers : hs[h].pc = "queue" => ENABLED LoopStep(h)

C4_AtOnce ==
    \A h \in Handlers :
        (LoopStep(h) /\ ~closed)
        => \/ /\ eventChan' = Append(eventChan, Stamp(NextEvent(h)))
              /\ hs'[h].accepted = hs[h].accepted + 1 \/ lastSub'.req = hs[h].req
           \/ /\ eventChan' = eventChan
              /\ Len(eventChan) = ChanCap
              /\ lastSub'.req = hs[h].req
              /\ lastSub'.code = StatusServiceUnavailable

\* C4: the buffer never holds more than ChanCap events, and a handler at an
\* enqueue attempt never waits: the attempt can always be taken, and it either
\* enqueues the event or ends the submission with 503
C4_NonBlocking == []C4_Bounded /\ [][C4_AtOnce]_vars

\* two handlers are at an enqueue attempt and the buffer is full
C4_Witness ==
    /\ Len(eventChan) = ChanCap
    /\ \A h \in Handlers : hs[h].pc = "queue"

\* the events of q that request r sent
OfRequest(q, r) == SelectSeq(q, LAMBDA e : e.req = r)

\* C5: a batch that meets a full buffer at attempt k is answered 503; the k-1
\* events sent before are its first k-1 events in array order, they are not
\* taken back (each is still buffered, in that order, or was delivered), no
\* later event of the batch is enqueued, and the count reported is k-1
C5_PartialAccept ==
    (lastSub.code = StatusServiceUnavailable)
    => LET k1 == lastSub.accepted
           mine == Mine(lastSub.req)
       IN /\ lastSub.logged = k1
          /\ k1 < Len(EventsIn(lastSub.rq))
          /\ mine = Sent(lastSub.rq, lastSub.req, k1)
          /\ LET buffered == OfRequest([i \in DOMAIN eventChan |->
                                           Unstamp(eventChan[i])], lastSub.req)
                 gone == k1 - Len(buffered)
             IN /\ gone >= 0
                /\ buffered = SubSeq(mine, gone + 1, k1)
                /\ \A i \in 1..gone : mine[i] \in Range(delivered)

\* a batch was answered 503 after one of its events was enqueued
C5_Witness ==
    /\ lastSub.code = StatusServiceUnavailable
    /\ lastSub.logged = 1
    /\ Len(EventsIn(lastSub.rq)) = 2
    /\ Len(OfRequest(eventChan, lastSub.req)) = 1

\* C6: a body that is not a JSON object and not an array of JSON objects is
\* answered 400 and none of its elements is enqueued
C6_MalformedRejected ==
    ( /\ lastSub.req # 0
      /\ lastSub.rq.method = "POST"
      /\ ~lastSub.rq.readErr
      /\ ~ObjectOrObjects(lastSub.rq.body) )
    => (lastSub.code = StatusBadRequest /\ Mine(lastSub.req) = <<>>)

\* the buffer without the stamps
Buffered == [i \in DOMAIN eventChan |-> Unstamp(eventChan[i])]
\* C7: no accepted event is lost or duplicated: every event is enqueued at
\* most once, delivered at most once, and the events enqueued so far are the
\* events delivered so far plus the events still buffered
C7_Conservation ==
    \A e \in Range(enqueued) \cup Range(delivered) \cup Range(Buffered) :
        /\ Count(enqueued, e) = 1
        /\ Count(delivered, e) <= 1
        /\ Count(enqueued, e) = Count(delivered, e) + Count(Buffered, e)

\* both consumers have received an event while both requests had events in
\* the channel, and a further event is still buffered
C7_Witness ==
    /\ Len(delivered) = 2
    /\ Len(eventChan) >= 1
    /\ \E i, j \in DOMAIN enqueued : enqueued[i].req # enqueued[j].req

\* C8: every Read call that returns has removed an event from the buffer and
\* returns it, or returns the timeout result after its deadline, or returns
\* the cancellation result of a cancelled caller; a cancelled caller that is
\* waiting can return at once; the timeout and the cancellation results
\* remove nothing from the buffer
C8_PollOutcomes ==
    [][\A p \in Pollers :
          /\ (ps[p].pc = "select" /\ ps[p].cancelled) => ENABLED ReadCancelled(p)
          /\ (ps[p].pc = "select" /\ ps'[p].pc = "idle")
             => \/ /\ lastRead'.result = "msg"
                   /\ Len(eventChan) > 0
                   /\ eventChan' = Tail(eventChan)
                   /\ lastRead'.msg.body = Head(eventChan).body
                \/ /\ lastRead'.result = "timeout"
                   /\ now >= ps[p].deadline
                   /\ eventChan' = eventChan
                   /\ delivered' = delivered
                \/ /\ lastRead'.result = "cancelled"
                   /\ ps[p].cancelled
                   /\ eventChan' = eventChan
                   /\ delivered' = delivered]_vars

\* C9: once Close has begun, no event of a request that arrived later is
\* enqueued, and every event that was buffered when Close began is still
\* buffered or has been delivered
C9_Shutdown ==
    (pcClose # "idle")
    => /\ \A i \in DOMAIN enqueued : enqueued[i].req <= atClose.requests
       /\ \A i \in DOMAIN atClose.buffer :
             \/ atClose.buffer[i] \in Range(eventChan)
             \/ Unstamp(atClose.buffer[i]) \in Range(delivered)

\* C10: http.received_at of a delivered event is the second in which the
\* handler sent the event on the channel
C10_StampAtEnqueue ==
    (lastRead.result = "msg" /\ lastRead.msg.req # 0)
    => lastRead.msg.receivedAt = lastRead.msg.enqAt

\* ============================================================== processors
\* ------------------------------------------------- fetchJSON (common.go)
\* a body that is not JSON
VInvalid == [k |-> "invalid", v |-> 0]
\* what the endpoint does on one GET: err is the error of httpClient.Do
\* ("": none; a timeout of the request context is such an error), status the
\* status code, body the decoded response body and text its first 1024 bytes
Response(e, st, b, t) == [err |-> e, status |-> st, body |-> b, text |-> t]
\* the result of fetchJSON: the map, or the error text
Fetched(d) == [ok |-> TRUE, data |-> d, err |-> ""]
FetchError(e) == [ok |-> FALSE, data |-> EmptyMap, err |-> e]

\* io.ReadAll(io.LimitReader(body, n)): the first n bytes of the body
LimitReader(text, n) == IF Len(text) <= n THEN text ELSE SubSeq(text, 1, n)
\* the bytes of an error response that fetchJSON reads
ErrorBodyLimit == 1024

\* a variant of fetchJSON that takes the body null for the empty object
fetchJSONNullIsEmpty(res) ==
    IF res.err # "" THEN FetchError(res.err)
    ELSE IF res.status >= 400
    THEN FetchError("http status " \o ToString(res.status) \o ": "
                    \o LimitReader(res.text, ErrorBodyLimit))
    ELSE IF res.body.k \notin {"obj", "null"} THEN FetchError("json: cannot decode")
    ELSE IF res.body.k = "null" THEN Fetched(EmptyMap)
    ELSE Fetched(res.body.v)

fetchJSON(res) ==
    IF res.err # "" THEN FetchError(res.err)
    ELSE IF res.status >= 400
    THEN FetchError("http status " \o ToString(res.status) \o ": "
                    \o LimitReader(res.text, ErrorBodyLimit))
    ELSE IF res.body.k \notin {"obj", "null"} THEN FetchError("json: cannot decode")
    ELSE IF res.body.k = "null" THEN FetchError("empty body")
    ELSE Fetched(res.body.v)

\* the response to the i-th lookup of a Process call that is given the
\* responses rs; the endpoint does not answer once rs is used up
Reply(rs, i) ==
    IF i <= Len(rs) THEN rs[i]
    ELSE Response("context deadline exceeded", 0, VInvalid, "")

\* ------------------------------------- extractNestedField, splitFieldPath
\* a field path is a sequence of pieces of text, "." being the separator
RECURSIVE SplitFrom(_, _, _, _)
SplitFrom(path, i, current, result) ==
    IF i > Len(path)
    THEN IF current # "" THEN Append(result, current) ELSE result
    ELSE IF path[i] = "."
    THEN SplitFrom(path, i + 1, "",
                   IF current # "" THEN Append(result, current) ELSE result)
    ELSE SplitFrom(path, i + 1, current \o path[i], result)

splitFieldPath(path) == SplitFrom(path, 1, "", <<>>)

\* a variant of Descend that stays at a value that is no mapping
RECURSIVE DescendWhilePossible(_, _, _)
DescendWhilePossible(current, parts, i) ==
    IF i > Len(parts) THEN current
    ELSE IF current.k # "obj" THEN current
    ELSE IF ~Has(current.v, parts[i]) THEN VNull
    ELSE DescendWhilePossible(current.v[parts[i]], parts, i + 1)

\* the descent of extractNestedField from the value current along parts[i..]
RECURSIVE Descend(_, _, _)
Descend(current, parts, i) ==
    IF i > Len(parts) THEN current
    ELSE IF current.k # "obj" THEN VNull
    ELSE IF ~Has(current.v, parts[i]) THEN VNull
    ELSE Descend(current.v[parts[i]], parts, i + 1)

\* the string at the path, "" when there is none
extractNestedField(obj, fieldPath) ==
    LET current == Descend(VObj(obj), splitFieldPath(fieldPath), 1) IN
    IF current.k = "str" THEN current.v ELSE ""

\* the text of a path, as the configuration gives it
RECURSIVE JoinFrom(_, _)
JoinFrom(path, i) ==
    IF i > Len(path) THEN "" ELSE path[i] \o JoinFrom(path, i + 1)
PathText(path) == JoinFrom(path, 1)

\* -------------------------------------------------------- categoryFilter
\* a variant of categoryFilterProcess that consults the deny list first and
\* lets a value pass that is not denied
categoryFilterDenyFirst(c, msg) ==
    IF msg.body.k = "invalid" THEN Result(<<>>, "invalid character", <<>>)
    ELSE IF msg.body.k # "obj"
    THEN Result(<<>>, "category_filter expects object", <<>>)
    ELSE IF ~Has(msg.body.v, c.field) THEN Result(<<msg>>, "", <<>>)
    ELSE IF msg.body.v[c.field].k # "str" THEN Result(<<msg>>, "", <<>>)
    ELSE IF c.exclude # {}
    THEN IF msg.body.v[c.field].v \in c.exclude
         THEN Result(<<>>, "", <<>>) ELSE Result(<<msg>>, "", <<>>)
    ELSE IF c.include # {} /\ msg.body.v[c.field].v \notin c.include
    THEN Result(<<>>, "", <<>>)
    ELSE Result(<<msg>>, "", <<>>)

\* categoryFilter.Process
categoryFilterProcess(c, msg) ==
    IF msg.body.k = "invalid" THEN Result(<<>>, "invalid character", <<>>)
    ELSE IF msg.body.k # "obj"
    THEN Result(<<>>, "category_filter expects object", <<>>)
    ELSE IF ~Has(msg.body.v, c.field) THEN Result(<<msg>>, "", <<>>)
    ELSE IF msg.body.v[c.field].k # "str" THEN Result(<<msg>>, "", <<>>)
    ELSE IF c.include # {} /\ msg.body.v[c.field].v \notin c.include
    THEN Result(<<>>, "", <<>>)
    ELSE IF c.exclude # {} /\ msg.body.v[c.field].v \in c.exclude
    THEN Result(<<>>, "", <<>>)
    ELSE Result(<<msg>>, "", <<>>)

\* ------------------------------------------------ assetEnricher, userEnricher
\* a number that AsStructured has decoded as json.Number (a float64 has kind
\* "num"): which of the two a message holds is decided by the host's decoder
VJNum(n) == [k |-> "jnum", v |-> n]
\* a float64 that is no integer: the number n + 1/2, for n >= 0
VFrac(n) == [k |-> "frac", v |-> n]
\* int(x) of a float64 x, which truncates: a number of kind "num" is its own
\* integer part, the integer part of n + 1/2 is n
IntOf(x) == x.v
\* x.(float64) succeeds and the number is n
IsFloat64(m, f, n) == Has(m, f) /\ m[f].k = "num" /\ m[f].v = n
\* x.(string) succeeds and the string is t
IsString(m, f, t) == Has(m, f) /\ m[f].k = "str" /\ m[f].v = t
\* append when the condition holds
AppendIf(q, cond, x) == IF cond THEN Append(q, VStr(x)) ELSE q

\* the contextual tags of assetEnricher.Process: obj is the body with the
\* asset field set, data the fetched map
assetTags(obj, data) ==
    LET t0 == IF Has(obj, "tags") /\ obj["tags"].k = "arr"
              THEN obj["tags"].v ELSE <<>>
        detection == IsFloat64(obj, "class_uid", 2004)
        isSev == Has(obj, "severity_id")
                 /\ obj["severity_id"].k \in {"num", "frac"}
        sev == IF isSev THEN obj["severity_id"].v ELSE 0
        t1 == AppendIf(t0, detection, "ocsf_detection_finding")
        t2 == AppendIf(t1, detection /\ isSev /\ sev >= 4, "high_severity")
        t3 == AppendIf(t2, /\ detection
                           /\ isSev
                           /\ obj["severity_id"].k = "num"
                           /\ sev = 5,
                       "critical_severity")
        t4 == AppendIf(t3, /\ detection
                           /\ Has(obj, "finding")
                           /\ obj["finding"].k = "obj"
                           /\ Has(obj["finding"].v, "title")
                           /\ obj["finding"].v["title"].k = "str"
                           /\ obj["finding"].v["title"].v # "",
                       "has_finding_title")
        process == IsFloat64(obj, "class_uid", 1007)
        t5 == AppendIf(AppendIf(t4, process, "ocsf_process_activity"),
                       process, "edr_event")
        t6 == AppendIf(t5, /\ Has(obj, "observables")
                           /\ obj["observables"].k = "arr"
                           /\ Len(obj["observables"].v) > 0,
                       "has_observables")
        t7 == AppendIf(t6, IsString(data, "owner", "IT"), "it_asset")
    IN AppendIf(t7, IsString(data, "criticality", "high"), "critical_asset")

\* msg.MetaSet(key, value)
MetaSet(msg, key, value) == [msg EXCEPT !.meta = Put(msg.meta, key, value)]

\* a variant of assetEnricherProcess that fails the message when the lookup
\* fails
assetEnricherFailing(c, msg, rs) ==
    IF msg.body.k = "invalid" THEN Result(<<>>, "invalid character", <<>>)
    ELSE IF msg.body.k # "obj"
    THEN Result(<<>>, "asset_enricher expects object", <<>>)
    ELSE LET obj == msg.body.v
             assetID == extractNestedField(obj, c.assetField)
             got == fetchJSON(Reply(rs, 1))
         IN IF assetID = "" THEN Result(<<msg>>, "", <<>>)
            ELSE IF ~got.ok THEN Result(<<>>, got.err, <<assetID>>)
            ELSE LET obj1 == Put(obj, "asset", VObj(got.data))
                     obj2 == Put(obj1, "tags", VArr(assetTags(obj1, got.data)))
                 IN Result(<<[msg EXCEPT !.body = VObj(obj2)]>>, "", <<assetID>>)

\* a variant of assetEnricherProcess that asks the endpoint whatever the id
assetEnricherEager(c, msg, rs) ==
    IF msg.body.k = "invalid" THEN Result(<<>>, "invalid character", <<>>)
    ELSE IF msg.body.k # "obj"
    THEN Result(<<>>, "asset_enricher expects object", <<>>)
    ELSE LET obj == msg.body.v
             assetID == extractNestedField(obj, c.assetField)
             got == fetchJSON(Reply(rs, 1))
         IN IF ~got.ok
            THEN Result(<<MetaSet(msg, "asset_enrich_error", got.err)>>, "",
                        <<assetID>>)
            ELSE LET obj1 == Put(obj, "asset", VObj(got.data))
                     obj2 == Put(obj1, "tags", VArr(assetTags(obj1, got.data)))
                 IN Result(<<[msg EXCEPT !.body = VObj(obj2)]>>, "", <<assetID>>)

\* a variant of assetEnricherProcess that marks a message without asset id
assetEnricherMarking(c, msg, rs) ==
    IF msg.body.k = "invalid" THEN Result(<<>>, "invalid character", <<>>)
    ELSE IF msg.body.k # "obj"
    THEN Result(<<>>, "asset_enricher expects object", <<>>)
    ELSE LET obj == msg.body.v
             assetID == extractNestedField(obj, c.assetField)
             got == fetchJSON(Reply(rs, 1))
         IN IF assetID = ""
            THEN Result(<<MetaSet(msg, "asset_enrich_error", "no asset id")>>,
                        "", <<>>)
            ELSE IF ~got.ok
            THEN Result(<<MetaSet(msg, "asset_enrich_error", got.err)>>, "",
                        <<assetID>>)
            ELSE LET obj1 == Put(obj, "asset", VObj(got.data))
                     obj2 == Put(obj1, "tags", VArr(assetTags(obj1, got.data)))
                 IN Result(<<[msg EXCEPT !.body = VObj(obj2)]>>, "", <<assetID>>)

\* assetEnricher.Process; rs are the responses of the endpoint
assetEnricherProcess(c, msg, rs) ==
    IF msg.body.k = "invalid" THEN Result(<<>>, "invalid character", <<>>)
    ELSE IF msg.body.k # "obj"
    THEN Result(<<>>, "asset_enricher expects object", <<>>)
    ELSE LET obj == msg.body.v
             assetID == extractNestedField(obj, c.assetField)
             got == fetchJSON(Reply(rs, 1))
         IN IF assetID = "" THEN Result(<<msg>>, "", <<>>)
            ELSE IF ~got.ok
            THEN Result(<<MetaSet(msg, "asset_enrich_error", got.err)>>, "",
                        <<assetID>>)
            ELSE LET obj1 == Put(obj, "asset", VObj(got.data))
                     obj2 == Put(obj1, "tags", VArr(assetTags(obj1, got.data)))
                 IN Result(<<[msg EXCEPT !.body = VObj(obj2)]>>, "", <<assetID>>)

\* a variant of userEnricherProcess that lets a body pass that is no object
userEnricherLenient(c, msg, rs) ==
    IF msg.body.k = "invalid" THEN Result(<<>>, "invalid character", <<>>)
    ELSE IF msg.body.k # "obj" THEN Result(<<msg>>, "", <<>>)
    ELSE LET obj == msg.body.v
             f == PathText(c.userField)
             got == fetchJSON(Reply(rs, 1))
         IN IF ~Has(obj, f) THEN Result(<<msg>>, "", <<>>)
            ELSE IF obj[f].k # "str" \/ obj[f].v = ""
            THEN Result(<<msg>>, "", <<>>)
            ELSE IF ~got.ok
            THEN Result(<<MetaSet(msg, "user_enrich_error", got.err)>>, "",
                        <<obj[f].v>>)
            ELSE Result(<<[msg EXCEPT !.body = VObj(Put(obj, "user",
                                                        VObj(got.data)))]>>,
                        "", <<obj[f].v>>)

\* a variant of userEnricherProcess that keeps a user field the record has
userEnricherKeeping(c, msg, rs) ==
    IF msg.body.k = "invalid" THEN Result(<<>>, "invalid character", <<>>)
    ELSE IF msg.body.k # "obj"
    THEN Result(<<>>, "user_enricher expects object", <<>>)
    ELSE LET obj == msg.body.v
             f == PathText(c.userField)
             got == fetchJSON(Reply(rs, 1))
         IN IF ~Has(obj, f) THEN Result(<<msg>>, "", <<>>)
            ELSE IF obj[f].k # "str" \/ obj[f].v = ""
            THEN Result(<<msg>>, "", <<>>)
            ELSE IF ~got.ok
            THEN Result(<<MetaSet(msg, "user_enrich_error", got.err)>>, "",
                        <<obj[f].v>>)
            ELSE IF Has(obj, "user") THEN Result(<<msg>>, "", <<obj[f].v>>)
            ELSE Result(<<[msg EXCEPT !.body = VObj(Put(obj, "user",
                                                        VObj(got.data)))]>>,
                        "", <<obj[f].v>>)

\* userEnricher.Process: the id is the top-level field named by id_field
userEnricherProcess(c, msg, rs) ==
    IF msg.body.k = "invalid" THEN Result(<<>>, "invalid character", <<>>)
    ELSE IF msg.body.k # "obj"
    THEN Result(<<>>, "user_enricher expects object", <<>>)
    ELSE LET obj == msg.body.v
             f == PathText(c.userField)
             got == fetchJSON(Reply(rs, 1))
         IN IF ~Has(obj, f) THEN Result(<<msg>>, "", <<>>)
            ELSE IF obj[f].k # "str" \/ obj[f].v = ""
            THEN Result(<<msg>>, "", <<>>)
            ELSE IF ~got.ok
            THEN Result(<<MetaSet(msg, "user_enrich_error", got.err)>>, "",
                        <<obj[f].v>>)
            ELSE Result(<<[msg EXCEPT !.body = VObj(Put(obj, "user",
                                                        VObj(got.data)))]>>,
                        "", <<obj[f].v>>)

\* ------------------------------------------------------------ threatIntel
\* the keys of threatIntelTypes
threatIntelTypes == {1, 2, 4, 5, 7, 8, 23}

\* a variant of HasType that accepts a float64 only
HasTypeFloatOnly(observable) ==
    Has(observable, "type_id") /\ observable["type_id"].k = "num"

\* the type switch on observable["type_id"]: float64, int, int64 and
\* json.Number give the number, anything else gives no type
HasType(observable) ==
    /\ Has(observable, "type_id")
    /\ observable["type_id"].k \in {"num", "jnum", "frac"}

\* the observable passes the type filter and has a name to look up
Lookable(obs) ==
    /\ obs.k = "obj"
    /\ HasType(obs.v)
    /\ obs.v["type_id"].k # "frac"
    /\ obs.v["type_id"].v \in threatIntelTypes
    /\ Has(obs.v, "name")
    /\ obs.v["name"].k = "str"
    /\ obs.v["name"].v # ""

\* a variant of EnrichFrom that stops at the first lookup that fails
RECURSIVE EnrichUntilFailure(_, _, _, _)
EnrichUntilFailure(observables, i, calls, rs) ==
    IF i > Len(observables) THEN [observables |-> observables, calls |-> calls]
    ELSE IF ~Lookable(observables[i])
    THEN EnrichUntilFailure(observables, i + 1, calls, rs)
    ELSE LET name == observables[i].v["name"].v
             got == fetchJSON(Reply(rs, Len(calls) + 1))
         IN IF ~got.ok
            THEN [observables |-> observables, calls |-> Append(calls, name)]
            ELSE EnrichUntilFailure(
                     [observables EXCEPT ![i] =
                         VObj(Put(@.v, "threat_intel", VObj(got.data)))],
                     i + 1, Append(calls, name), rs)

\* a variant of EnrichFrom that removes threat_intel from the observables
\* it does not enrich
RECURSIVE EnrichOrStrip(_, _, _, _)
EnrichOrStrip(observables, i, calls, rs) ==
    LET strip(o) ==
            IF o.k = "obj"
            THEN VObj([f \in DOMAIN o.v \ {"threat_intel"} |-> o.v[f]]) ELSE o
    IN
    IF i > Len(observables) THEN [observables |-> observables, calls |-> calls]
    ELSE IF ~Lookable(observables[i])
    THEN EnrichOrStrip([observables EXCEPT ![i] = strip(@)], i + 1, calls, rs)
    ELSE LET name == observables[i].v["name"].v
             got == fetchJSON(Reply(rs, Len(calls) + 1))
         IN IF ~got.ok
            THEN EnrichOrStrip([observables EXCEPT ![i] = strip(@)], i + 1,
                               Append(calls, name), rs)
            ELSE EnrichOrStrip(
                     [observables EXCEPT ![i] =
                         VObj(Put(@.v, "threat_intel", VObj(got.data)))],
                     i + 1, Append(calls, name), rs)

\* the loop over the observables from position i on: calls are the names
\* looked up so far
RECURSIVE EnrichFrom(_, _, _, _)
EnrichFrom(observables, i, calls, rs) ==
    IF i > Len(observables) THEN [observables |-> observables, calls |-> calls]
    ELSE IF ~Lookable(observables[i])
    THEN EnrichFrom(observables, i + 1, calls, rs)
    ELSE LET name == observables[i].v["name"].v
             got == fetchJSON(Reply(rs, Len(calls) + 1))
         IN IF ~got.ok
            THEN EnrichFrom(observables, i + 1, Append(calls, name), rs)
            ELSE EnrichFrom(
                     [observables EXCEPT ![i] =
                         VObj(Put(@.v, "threat_intel", VObj(got.data)))],
                     i + 1, Append(calls, name), rs)

\* a variant of threatIntelProcess that collects the results in a field
\* threat_intel_observables of the record and leaves the observables alone
threatIntelSidecar(msg, rs) ==
    IF msg.body.k = "invalid" THEN Result(<<>>, "invalid character", <<>>)
    ELSE IF msg.body.k # "obj"
    THEN Result(<<>>, "threat_intel_enricher expects object", <<>>)
    ELSE LET obj == msg.body.v IN
         IF /\ Has(obj, "observables")
            /\ obj["observables"].k = "arr"
            /\ Len(obj["observables"].v) > 0
         THEN LET e == EnrichFrom(obj["observables"].v, 1, <<>>, rs)
              IN Result(<<[msg EXCEPT !.body =
                              VObj(Put(obj, "threat_intel_observables",
                                       VArr(e.observables)))]>>,
                        "", e.calls)
         ELSE Result(<<msg>>, "", <<>>)

\* a variant of threatIntelProcess that returns no message when no
\* observable was enriched
threatIntelDropUnenriched(msg, rs) ==
    IF msg.body.k = "invalid" THEN Result(<<>>, "invalid character", <<>>)
    ELSE IF msg.body.k # "obj"
    THEN Result(<<>>, "threat_intel_enricher expects object", <<>>)
    ELSE LET obj == msg.body.v IN
         IF /\ Has(obj, "observables")
            /\ obj["observables"].k = "arr"
            /\ Len(obj["observables"].v) > 0
         THEN LET e == EnrichFrom(obj["observables"].v, 1, <<>>, rs)
              IN IF e.observables = obj["observables"].v
                 THEN Result(<<>>, "", e.calls)
                 ELSE Result(<<[msg EXCEPT !.body =
                                   VObj(Put(obj, "observables",
                                            VArr(e.observables)))]>>,
                             "", e.calls)
         ELSE Result(<<msg>>, "", <<>>)

\* threatIntel.Process
threatIntelProcess(msg, rs) ==
    IF msg.body.k = "invalid" THEN Result(<<>>, "invalid character", <<>>)
    ELSE IF msg.body.k # "obj"
    THEN Result(<<>>, "threat_intel_enricher expects object", <<>>)
    ELSE LET obj == msg.body.v IN
         IF /\ Has(obj, "observables")
            /\ obj["observables"].k = "arr"
            /\ Len(obj["observables"].v) > 0
         THEN LET e == EnrichFrom(obj["observables"].v, 1, <<>>, rs)
              IN Result(<<[msg EXCEPT !.body =
                              VObj(Put(obj, "observables",
                                       VArr(e.observables)))]>>,
                        "", e.calls)
         ELSE Result(<<msg>>, "", <<>>)

\* ---------------------------------------------------------- PayloadTagger
\* digits without their trailing zeros
RECURSIVE TrimZeros(_)
TrimZeros(digits) ==
    IF Len(digits) > 1 /\ SubSeq(digits, Len(digits), Len(digits)) = "0"
    THEN TrimZeros(SubSeq(digits, 1, Len(digits) - 1))
    ELSE digits

\* %v of the float64 n, or of n + 1/2 when half: the shortest digits that
\* read back, in decimal form while the exponent is below 6 and in the form
\* d.ddde+XX from 1e+06 on (strconv 'g' with the shortest precision; the
\* exponents below -4 do not occur for these numbers)
FormatFloat(n, half) ==
    LET neg == n < 0
        whole == IF ~neg THEN n ELSE IF half THEN -n - 1 ELSE -n
        text == ToString(whole)
        digits == IF half THEN (IF whole = 0 THEN "5" ELSE text \o "5")
                  ELSE TrimZeros(text)
        exp == Len(text) - 1
        sign == IF neg THEN "-" ELSE ""
    IN IF exp >= 6
       THEN sign \o SubSeq(digits, 1, 1)
            \o (IF Len(digits) > 1
                THEN "." \o SubSeq(digits, 2, Len(digits)) ELSE "")
            \o "e+" \o (IF exp < 10 THEN "0" ELSE "") \o ToString(exp)
       ELSE sign \o text \o (IF half THEN ".5" ELSE "")

\* a < b for Go strings: the comparison of their bytes (printable ASCII
\* but the grave accent)
RECURSIVE StrLess(_, _)
StrLess(a, b) ==
    LET ascii == " !\"#$%&'()*+,-./0123456789:;<=>?@ABCDEFGHIJKLMNOPQRSTUVWXYZ"
                 \o "[\\]^_abcdefghijklmnopqrstuvwxyz{|}~"
        rank(c) == CHOOSE i \in 1..Len(ascii) : SubSeq(ascii, i, i) = c
    IN IF Len(a) = 0 THEN Len(b) > 0
       ELSE IF Len(b) = 0 THEN FALSE
       ELSE IF SubSeq(a, 1, 1) # SubSeq(b, 1, 1)
       THEN rank(SubSeq(a, 1, 1)) < rank(SubSeq(b, 1, 1))
       ELSE StrLess(SubSeq(a, 2, Len(a)), SubSeq(b, 2, Len(b)))

\* the keys of a map in the order fmt prints them: sorted
RECURSIVE SortedKeys(_)
SortedKeys(keys) ==
    IF keys = {} THEN <<>>
    ELSE LET k == CHOOSE k \in keys : \A o \in keys \ {k} : StrLess(k, o)
         IN <<k>> \o SortedKeys(keys \ {k})

\* fmt.Sprintf("%v", value) of a value json.Unmarshal has decoded: every
\* number is a float64
RECURSIVE Sprint(_)
RECURSIVE SprintSeq(_, _)
RECURSIVE SprintMap(_, _, _)
Sprint(x) ==
    IF x.k = "str" THEN x.v
    ELSE IF x.k \in {"num", "jnum"} THEN FormatFloat(x.v, FALSE)
    ELSE IF x.k = "frac" THEN FormatFloat(x.v, TRUE)
    ELSE IF x.k = "arr" THEN "[" \o SprintSeq(x.v, 1) \o "]"
    ELSE IF x.k = "obj"
    THEN "map[" \o SprintMap(x.v, SortedKeys(DOMAIN x.v), 1) \o "]"
    ELSE "<nil>"
SprintSeq(q, i) ==
    IF i > Len(q) THEN ""
    ELSE (IF i > 1 THEN " " ELSE "") \o Sprint(q[i]) \o SprintSeq(q, i + 1)
SprintMap(m, keys, i) ==
    IF i > Len(keys) THEN ""
    ELSE (IF i > 1 THEN " " ELSE "") \o keys[i] \o ":"
         \o Sprint(m[keys[i]]) \o SprintMap(m, keys, i + 1)

\* value.(float64) on a value json.Unmarshal has decoded: every JSON number
IsNumber(x) == x.k \in {"num", "jnum", "frac"}

\* two MetaSet calls
MetaSet2(msg, k1, v1, k2, v2) == MetaSet(MetaSet(msg, k1, v1), k2, v2)

\* PayloadTagger.addSemanticTags
addSemanticTags(msg, field, value) ==
    IF ~IsNumber(value) THEN msg
    ELSE IF field = "class_uid"
    THEN IF IntOf(value) = 2004
         THEN MetaSet2(msg, "tag.category", "detection", "tag.type", "alert")
         ELSE IF IntOf(value) = 5001
         THEN MetaSet2(msg, "tag.category", "asset", "tag.type", "inventory")
         ELSE IF IntOf(value) \in {4001, 4002, 4003}
         THEN MetaSet2(msg, "tag.category", "network", "tag.type", "activity")
         ELSE IF IntOf(value) \in {3001, 3002}
         THEN MetaSet(msg, "tag.category", "authentication")
         ELSE IF IntOf(value) \in {1001, 1002, 1003}
         THEN MetaSet2(msg, "tag.category", "system", "tag.type", "process")
         ELSE msg
    ELSE IF field = "severity_id"
    THEN IF IntOf(value) = 1
         THEN MetaSet2(msg, "tag.severity", "informational",
                       "tag.priority", "low")
         ELSE IF IntOf(value) = 2
         THEN MetaSet2(msg, "tag.severity", "low", "tag.priority", "low")
         ELSE IF IntOf(value) = 3
         THEN MetaSet2(msg, "tag.severity", "medium", "tag.priority", "medium")
         ELSE IF IntOf(value) = 4
         THEN MetaSet2(msg, "tag.severity", "high", "tag.priority", "high")
         ELSE IF IntOf(value) \in {5, 6}
         THEN MetaSet2(msg, "tag.severity", "critical",
                       "tag.priority", "critical")
         ELSE msg
    ELSE IF field = "category_uid"
    THEN IF IntOf(value) = 1 THEN MetaSet(msg, "tag.domain", "system")
         ELSE IF IntOf(value) = 2 THEN MetaSet(msg, "tag.domain", "findings")
         ELSE IF IntOf(value) = 3 THEN MetaSet(msg, "tag.domain", "identity")
         ELSE IF IntOf(value) = 4 THEN MetaSet(msg, "tag.domain", "network")
         ELSE IF IntOf(value) = 5 THEN MetaSet(msg, "tag.domain", "discovery")
         ELSE msg
    ELSE msg

\* a variant of addContentTags that adds the observables to the count it
\* finds in the metadata
addContentTagsCounting(msg, event) ==
    LET n == IF Has(msg.meta, "tag.observable_count") THEN 1 ELSE 0 IN
    IF /\ Has(event, "observables")
       /\ event["observables"].k = "arr"
       /\ Len(event["observables"].v) > 0
    THEN MetaSet(msg, "tag.observable_count",
                 ToString(n + Len(event["observables"].v)))
    ELSE msg

\* PayloadTagger.addContentTags
addContentTags(msg, event) ==
    LET hasObs == /\ Has(event, "observables")
                  /\ event["observables"].k = "arr"
                  /\ Len(event["observables"].v) > 0
        m1 == IF hasObs
              THEN MetaSet2(msg, "tag.has_observables", "true",
                            "tag.observable_count",
                            ToString(Len(event["observables"].v)))
              ELSE msg
        m2 == IF /\ hasObs
                 /\ \E i \in DOMAIN event["observables"].v :
                       /\ event["observables"].v[i].k = "obj"
                       /\ Has(event["observables"].v[i].v, "threat_intel")
              THEN MetaSet2(m1, "tag.has_threat_intel", "true",
                            "tag.threat_detected", "true")
              ELSE m1
        m3 == IF Has(event, "asset") THEN MetaSet(m2, "tag.enriched", "asset")
              ELSE m2
        m4 == IF Has(event, "status_id") /\ IsNumber(event["status_id"])
              THEN MetaSet(m3, "tag.status",
                           IF IntOf(event["status_id"]) = 1 THEN "success"
                           ELSE "failure")
              ELSE m3
    IN IF /\ Has(event, "metadata")
          /\ event["metadata"].k = "obj"
          /\ Has(event["metadata"].v, "uid")
          /\ event["metadata"].v["uid"].k = "str"
       THEN MetaSet(m4, "tag.event_id", event["metadata"].v["uid"].v)
       ELSE m4

\* the loop of tagMessage over tagFields from position i on
RECURSIVE TagFieldsFrom(_, _, _, _)
TagFieldsFrom(msg, event, tagFields, i) ==
    IF i > Len(tagFields) THEN msg
    ELSE IF ~Has(event, tagFields[i])
    THEN TagFieldsFrom(msg, event, tagFields, i + 1)
    ELSE TagFieldsFrom(
             addSemanticTags(
                 MetaSet(msg, "tag." \o tagFields[i],
                         Sprint(event[tagFields[i]])),
                 tagFields[i], event[tagFields[i]]),
             event, tagFields, i + 1)

\* PayloadTagger.tagMessage: err tells whether it returns an error; a body
\* null decodes to the nil map without an error
tagMessage(c, msg) ==
    IF msg.body.k \notin {"obj", "null"} THEN [err |-> TRUE, msg |-> msg]
    ELSE LET event == IF msg.body.k = "obj" THEN msg.body.v ELSE EmptyMap
             m1 == IF c.addSource
                   THEN MetaSet(msg, "tag.source", "http_receiver") ELSE msg
             m2 == IF c.addTimestamp /\ Has(m1.meta, "http.received_at")
                   THEN MetaSet(m1, "tag.ingested_at",
                                m1.meta["http.received_at"])
                   ELSE m1
         IN [err |-> FALSE,
             msg |-> addContentTags(TagFieldsFrom(m2, event, c.tagFields, 1),
                                    event)]

\* PayloadTagger.ProcessBatch on a batch of one message
payloadTaggerProcess(c, msg) == Result(<<tagMessage(c, msg).msg>>, "", <<>>)

\* a variant of payloadTaggerProcessBatch that gives up the batch at a
\* message it cannot tag
payloadTaggerFailFast(c, batch) ==
    IF \E i \in 1..Len(batch) : tagMessage(c, batch[i]).err
    THEN [batches |-> <<>>, err |-> "failed to parse JSON"]
    ELSE [batches |-> <<[i \in 1..Len(batch) |-> tagMessage(c, batch[i]).msg]>>,
          err |-> ""]

\* PayloadTagger.ProcessBatch: every message is tagged in turn, an error of
\* tagMessage is logged, and the batch is returned as the one result batch
payloadTaggerProcessBatch(c, batch) ==
    [batches |-> <<[i \in 1..Len(batch) |-> tagMessage(c, batch[i]).msg]>>,
     err |-> ""]

\* ------------------------------------------------------------ the inputs
\* bodies of records
Obs(name, type) == VObj(("name" :> VStr(name)) @@ ("type_id" :> type))
Intel(x) == VObj("severity" :> VStr(x))
\* the event of the end-to-end scenario
Evil ==
    VObj(("class_uid" :> VNum(2004)) @@ ("severity_id" :> VNum(5))
         @@ ("category" :> VStr("security"))
         @@ ("observables" :> VArr(<<Obs("evil.exe", VNum(7))>>)))
\* observables: eligible ones, one that is not, one that carries threat_intel
\* already, one without a name, one that is no object
Mixed(cat) ==
    VObj(("category" :> cat) @@ ("asset_id" :> VStr("a-1"))
         @@ ("user_id" :> VStr("u-1"))
         @@ ("observables" :>
                VArr(<<Obs("10.0.0.1", VJNum(2)), Obs("bob", VNum(3)),
                       VObj(("name" :> VStr("c2.com")) @@ ("type_id" :> VNum(4))
                            @@ ("threat_intel" :> Intel("old")))>>)))
Odd ==
    VObj(("category" :> VNum(1)) @@ ("asset_id" :> VStr(""))
         @@ ("user_id" :> VNum(7)) @@ ("tags" :> VArr(<<VStr("seen")>>))
         @@ ("observables" :>
                VArr(<<VStr("x"), VObj("type_id" :> VNum(7)),
                       Obs("", VNum(7)), Obs("7", VStr("7")),
                       VObj(("name" :> VStr("bob")) @@ ("type_id" :> VNum(3))
                            @@ ("threat_intel" :> Intel("old"))),
                       Obs("evil.exe", VNum(8))>>)))
Nested ==
    VObj(("category" :> VStr("test"))
         @@ ("device" :> VObj("uid" :> VStr("d-1")))
         @@ ("user" :> VObj("uid" :> VStr("u-1")))
         @@ ("class_uid" :> VNum(2004)) @@ ("severity_id" :> VNum(4))
         @@ ("status_id" :> VNum(1))
         @@ ("metadata" :> VObj("uid" :> VStr("e-1")))
         @@ ("observables" :> VArr(<<>>)))
Flat ==
    VObj(("device" :> VStr("d-1")) @@ ("asset_id" :> VNum(5))
         @@ ("category_uid" :> VNum(2)) @@ ("status_id" :> VNum(2))
         @@ ("observables" :> VStr("none")))
\* a record with a user id and no asset id
UserOnly == VObj(("user_id" :> VStr("u-2")) @@ ("category" :> VStr("security")))
\* a record with a top-level field whose name holds a dot
Dotted ==
    VObj(("user.uid" :> VStr("u-3")) @@ ("user" :> VObj("uid" :> VStr("u-1")))
         @@ ("category" :> VStr("security")))
\* a record with an asset id that arrives with a tags field
Labelled(t) ==
    VObj(("asset_id" :> VStr("a-2")) @@ ("class_uid" :> VNum(2004))
         @@ ("category" :> VStr("security")) @@ ("tags" :> t))
\* records with an asset id for the contextual tags: class, severity, title
Finding(c, sev, title) ==
    VObj(("asset_id" :> VStr("a-3")) @@ ("class_uid" :> c)
         @@ ("severity_id" :> sev) @@ ("category" :> VStr("security"))
         @@ ("finding" :> VObj("title" :> title)))
Findings ==
    {Finding(VNum(2004), VNum(5), VStr("Malware")),
     Finding(VNum(2004), VNum(4), VStr("")),
     Finding(VNum(2004), VNum(3), VNum(1)),
     Finding(VNum(2004), VFrac(4), VStr("Malware")),
     Finding(VNum(2004), VFrac(3), VStr("Malware")),
     Finding(VNum(2004), VStr("5"), VStr("Malware")),
     Finding(VNum(2004), VJNum(5), VStr("Malware")),
     Finding(VJNum(2004), VNum(5), VStr("Malware")),
     Finding(VFrac(2004), VNum(5), VStr("Malware")),
     Finding(VNum(1007), VNum(5), VStr("Malware")),
     Finding(VJNum(1007), VNum(1), VStr("")),
     Finding(VNum(5001), VNum(5), VStr("Malware"))}
Records ==
    {Evil, Odd, Nested, Flat, UserOnly, Dotted, VObj(EmptyMap),
     Labelled(VStr("prod")), Labelled(VArr(<<VStr("seen"), VNum(1)>>))}
    \cup Findings
    \cup {Mixed(VStr(c)) : c \in {"security", "finance", "test", "other"}}
\* bodies that are no object
NonObjects == {VNum(42), VStr("x"), VArr(<<Evil>>), VInvalid, VNull}
\* metadata a message arrives with
Metas ==
    {EmptyMap, "http.received_at" :> "t1",
     ("tag.observable_count" :> "9") @@ ("asset_enrich_error" :> "old")}

\* responses of the lookup endpoint
RTimeout == Response("context deadline exceeded", 0, VInvalid, "")
RNotFound == Response("", 404, VInvalid, "not found")
RHigh == Response("", 200, Intel("high"), "")
RAsset ==
    Response("", 200,
             VObj(("owner" :> VStr("IT")) @@ ("criticality" :> VStr("high"))),
             "")
RNull == Response("", 200, VNull, "")
RArray == Response("", 200, VArr(<<>>), "")
RInvalid == Response("", 200, VInvalid, "")
\* an error body of 1028 bytes: 1024 bytes and "tail"
LongText ==
    LET b16 == "0123456789abcdef"
        b64 == b16 \o b16 \o b16 \o b16
        b256 == b64 \o b64 \o b64 \o b64
    IN b256 \o b256 \o b256 \o b256 \o "tail"
\* responses at the limits: the last status that is no error and the first
\* that is one, an error body longer than is read, a response without body,
\* a refused connection, a body that is a string
EdgeResponses ==
    {Response("", 399, Intel("high"), ""),
     Response("", 400, Intel("high"), "{\"severity\":\"high\"}"),
     Response("", 500, VInvalid, LongText),
     Response("", 204, VInvalid, ""),
     Response("connection refused", 0, VInvalid, ""),
     Response("", 200, VStr("ok"), "")}
Responses ==
    {RTimeout, RNotFound, RHigh, RAsset, RNull, RArray, RInvalid}
    \cup EdgeResponses
\* number of lookups the endpoint answers in one behaviour
MaxReplies == 3
ReplySeqs ==
    [1..MaxReplies -> {RTimeout, RNotFound, RHigh}]
    \cup {<<r>> : r \in Responses}

\* configurations: the processors in pipeline order and their settings
Cfg(units, inc, exc, af, uf, tf, src) ==
    [units |-> units, field |-> "category", include |-> inc, exclude |-> exc,
     assetField |-> af, userField |-> uf, tagFields |-> tf,
     addTimestamp |-> TRUE, addSource |-> src]
DefaultTagFields == <<"class_uid", "severity_id", "category_uid">>
Enrichers == <<"asset_enricher", "user_enricher", "threat_intel_enricher">>
\* every include and exclude list over two categories, filter first
FilterConfigs ==
    {Cfg(<<"category_filter", "payload_tagger", "payload_tagger">>, i, e,
         <<"asset_id">>, <<"user_id">>, DefaultTagFields, FALSE) :
        i \in SUBSET {"security", "test"}, e \in SUBSET {"security", "test"}}
\* the enrichers followed by the filter, with flat and with nested id fields
EnrichConfigs ==
    {Cfg(Enrichers \o <<"category_filter">>, {"security"}, {},
         <<"asset_id">>, <<"user_id">>, DefaultTagFields, FALSE),
     Cfg(Enrichers \o <<"category_filter">>, {"security"}, {"test"},
         <<"device", ".", "uid">>, <<"user", ".", "uid">>, DefaultTagFields,
         FALSE),
     Cfg(<<"threat_intel_enricher", "payload_tagger", "category_filter",
           "asset_enricher">>, {}, {"test"},
         <<".", "device", ".", ".", "uid">>, <<"user_id">>,
         <<"category", "class_uid", "observables">>, TRUE),
     Cfg(<<"user_enricher", "asset_enricher", "category_filter">>, {}, {},
         <<"asset_id">>, <<"user_id">>, DefaultTagFields, FALSE)}

\* the tagger ahead of the filter
TaggerFirstConfigs ==
    {Cfg(<<"payload_tagger", "category_filter">>, {}, {"test"},
         <<"asset_id">>, <<"user_id">>, tf, TRUE) :
        tf \in {DefaultTagFields, <<"category", "status_id">>}}

\* a run: the configuration, the messages submitted and the responses
Scenario(c, in, rs) == [cfg |-> c, inbox |-> in, replies |-> rs]
Messages == {Message(b, md) : b \in Records \cup NonObjects, md \in Metas}
Scenarios ==
    {Scenario(c, <<m>>, <<>>) :
        c \in FilterConfigs \cup TaggerFirstConfigs, m \in Messages}
    \cup {Scenario(c, <<m>>, rs) :
             c \in EnrichConfigs, m \in Messages, rs \in ReplySeqs}
    \cup {Scenario(c, <<Message(b, EmptyMap), Message(g, EmptyMap)>>, rs) :
             c \in EnrichConfigs, b \in NonObjects \cup {Mixed(VStr("test"))},
             g \in {Evil, Mixed(VStr("security")), Mixed(VStr("test"))},
             rs \in {<<>>, <<RHigh, RHigh, RHigh>>}}

\* ------------------------------------------- the inputs of ProcessBatch
\* the codes of the tables of addSemanticTags, codes next to them, and the
\* numbers around the one from which %v prints a float64 with an exponent
TagCodes ==
    {0, 1, 2, 3, 4, 5, 6, 7, 1001, 1002, 1003, 1004, 2004, 2005, 3001, 3002,
     3003, 4001, 4002, 4003, 4004, 5001, 999999, 1000000, 20040000}
\* values of a classifier field: the codes, numbers that are no integers,
\* and values that are no numbers
TagValues ==
    {VNum(n) : n \in TagCodes}
    \cup {VFrac(0), VFrac(1), VFrac(5), VFrac(2004), VFrac(1000000),
          VJNum(5), VStr("1"), VNull}
Classified(field, value) == VObj(field :> value)
\* the event of the receiver guide, and the same after enrichment
Guide ==
    VObj(("metadata" :> VObj("uid" :> VStr("evt-123")))
         @@ ("class_uid" :> VNum(2004)) @@ ("severity_id" :> VNum(5))
         @@ ("category_uid" :> VNum(2))
         @@ ("message" :> VStr("Ransomware detected"))
         @@ ("observables" :>
                VArr(<<VObj(("name" :> VStr("ransomware.exe"))
                            @@ ("type_id" :> VNum(7))
                            @@ ("threat_intel" :>
                                   VObj(("severity" :> VStr("critical"))
                                        @@ ("threat_type" :>
                                               VStr("Ransomware")))))>>)))
Enriched2 ==
    VObj(("asset" :> VNull) @@ ("class_uid" :> VNum(3001))
         @@ ("severity_id" :> VNum(2)) @@ ("status_id" :> VNum(1))
         @@ ("metadata" :> VObj("uid" :> VNum(1)))
         @@ ("observables" :>
                VArr(<<VStr("x"), Obs("10.0.0.1", VNum(2))>>)))
TagRecords ==
    {Classified(f, x) :
        f \in {"class_uid", "severity_id", "category_uid", "status_id"},
        x \in TagValues}
    \cup Records \cup {Guide, Enriched2}
\* the settings of the tagger
TaggerConfigs ==
    {[Cfg(<<"payload_tagger">>, {}, {}, <<"asset_id">>, <<"user_id">>, tf, src)
         EXCEPT !.addTimestamp = ts] :
        tf \in {DefaultTagFields, <<>>,
                <<"status_id", "category", "class_uid", "observables">>},
        src \in BOOLEAN, ts \in BOOLEAN}
\* number of messages of a batch
MaxTagBatch == 2
BatchMessages ==
    {Message(b, md) :
        b \in {Evil, Nested, VNum(42), VArr(<<Evil>>), VInvalid, VNull},
        md \in {EmptyMap, "http.received_at" :> "t1"}}
\* batches: every record by itself, and all short batches of a few messages
Batches ==
    {<<Message(b, md)>> : b \in TagRecords \cup NonObjects, md \in Metas}
    \cup UNION {[1..n -> BatchMessages] : n \in 0..MaxTagBatch}

\* --------------------------------------------------------------- pipeline
\* the processor registered under a name, applied to one message
Process(unit, c, msg, rs) ==
    IF unit = "category_filter" THEN categoryFilterProcess(c, msg)
    ELSE IF unit = "asset_enricher" THEN assetEnricherProcess(c, msg, rs)
    ELSE IF unit = "user_enricher" THEN userEnricherProcess(c, msg, rs)
    ELSE IF unit = "threat_intel_enricher" THEN threatIntelProcess(msg, rs)
    ELSE payloadTaggerProcess(c, msg)

\* the outcome a Process result stands for: an error fails the message, an
\* empty batch drops it, a batch with the message keeps it
Outcome(out) ==
    IF out.err # "" THEN "fail"
    ELSE IF out.batch = <<>> THEN "drop"
    ELSE "continue"

\* a message that has left the pipeline
Left(outcome, err, msg, calls) ==
    [outcome |-> outcome, err |-> err, msg |-> msg, ran |-> calls]

\* a variant of Apply's rule that goes on to the next processor whatever
\* the outcome
KeepGoing(outcome) == FALSE

\* the pipeline ends the traversal on this outcome
Stops(outcome) == outcome \in {"drop", "fail"}

\* the pipeline takes the next message
Take ==
    /\ upos = 0
    /\ inbox # <<>>
    /\ cur' = Head(inbox)
    /\ inbox' = Tail(inbox)
    /\ upos' = 1
    /\ ran' = <<>>
    /\ UNCHANGED <<cfg, replies, last, done, batched, found, rvars>>

\* the next processor of the pipeline runs on the message
Apply ==
    /\ upos \in 1..Len(cfg.units)
    /\ LET unit == cfg.units[upos]
           out == Process(unit, cfg, cur, replies)
           call == [unit |-> unit, in |-> cur, out |-> out, served |-> replies]
       IN /\ last' = call
          /\ ran' = Append(ran, call)
          /\ replies' = SubSeq(replies, Len(out.calls) + 1, Len(replies))
          /\ IF Stops(Outcome(out))
             THEN /\ done' = Append(done, Left(Outcome(out), out.err, cur,
                                               Append(ran, call)))
                  /\ upos' = 0
                  /\ cur' = NoCur
             ELSE /\ cur' = IF out.batch = <<>> THEN cur ELSE out.batch[1]
                  /\ upos' = upos + 1
                  /\ done' = done
    /\ UNCHANGED <<cfg, inbox, batched, found, rvars>>

\* the message has passed the last processor and goes to the output
Forward ==
    /\ upos = Len(cfg.units) + 1
    /\ done' = Append(done, Left("forward", "", cur, ran))
    /\ upos' = 0
    /\ cur' = NoCur
    /\ UNCHANGED <<cfg, inbox, replies, ran, last, batched, found,
                   rvars>>

\* a pipeline with its input
PipelineInit ==
    /\ ReceiverInit
    /\ \E sc \in Scenarios :
          /\ cfg = sc.cfg
          /\ inbox = sc.inbox
          /\ replies = sc.replies
    /\ cur = NoCur
    /\ upos = 0
    /\ ran = <<>>
    /\ last = NoLast
    /\ done = <<>>
    /\ batched = NoBatched
    /\ found = NoFound

NextPipeline == Take \/ Apply \/ Forward
SpecPipeline == PipelineInit /\ [][NextPipeline]_vars

\* ------------------------------------------------- claims on the pipeline
\* the messages that have left the pipeline
Departed == {done[i] : i \in 1..Len(done)}

\* C11: the processors run on a message in the configured order, one after
\* the other, each on the message the one before it returned; a processor
\* that returns an empty batch without error ends the traversal with no
\* error, one that returns an error ends it with that error, and a message
\* is forwarded only after every processor has returned it
C11_ChainOrder ==
    \A d \in Departed :
        LET n == Len(d.ran) IN
        /\ n \in 1..Len(cfg.units)
        /\ \A i \in 1..n : d.ran[i].unit = cfg.units[i]
        /\ \A i \in 1..(n - 1) :
              /\ d.ran[i].out.err = ""
              /\ d.ran[i].out.batch # <<>>
              /\ d.ran[i + 1].in = d.ran[i].out.batch[1]
        /\ LET final == d.ran[n].out IN
           /\ (final.err = "" /\ final.batch = <<>>) =>
                 (d.outcome = "drop" /\ d.err = "")
           /\ final.err # "" => (d.outcome = "fail" /\ d.err = final.err)
           /\ (final.err = "" /\ final.batch # <<>>) =>
                 /\ d.outcome = "forward"
                 /\ n = Len(cfg.units)
                 /\ d.msg = final.batch[1]

\* a message failed and the next was dropped, each before the last processor
C11_Witness ==
    /\ \E d \in Departed :
          d.outcome = "drop" /\ Len(d.ran) < Len(cfg.units)
    /\ \E d \in Departed :
          d.outcome = "fail" /\ Len(d.ran) < Len(cfg.units)

\* the category of a body as the filter's description reads it: the string
\* under the configured field, or none
NoCategory(body) ==
    ~Has(body.v, cfg.field) \/ body.v[cfg.field].k # "str"
\* the record is to be dropped: its category misses a non-empty allow list
\* or is on a non-empty deny list
ToDrop(body) ==
    /\ ~NoCategory(body)
    /\ \/ cfg.include # {} /\ body.v[cfg.field].v \notin cfg.include
       \/ cfg.exclude # {} /\ body.v[cfg.field].v \in cfg.exclude

\* C12: on an object record the category filter returns no error; it drops
\* the record exactly when the category is a string that misses a non-empty
\* allow list or is on a non-empty deny list, and otherwise returns the
\* message with body and metadata as they were (so a record without a
\* category, or with one that is no string, always passes)
C12_FilterDecision ==
    (last.unit = "category_filter" /\ last.in.body.k = "obj") =>
        /\ last.out.err = ""
        /\ last.out.calls = <<>>
        /\ ToDrop(last.in.body) => last.out.batch = <<>>
        /\ ~ToDrop(last.in.body) => last.out.batch = <<last.in>>
        /\ NoCategory(last.in.body) => last.out.batch = <<last.in>>
        /\ (cfg.include = {"security"} /\ cfg.exclude = {}) =>
              /\ last.in.body = Mixed(VStr("security")) =>
                    last.out.batch = <<last.in>>
              /\ last.in.body = Mixed(VStr("finance")) =>
                    last.out.batch = <<>>
              /\ last.in.body = VObj(EmptyMap) =>
                    last.out.batch = <<last.in>>
        /\ (cfg.exclude = {"test"} /\ cfg.include = {}
            /\ last.in.body = Mixed(VStr("test"))) =>
              last.out.batch = <<>>

\* the filter dropped a record whose category misses the allow list and is
\* not on the deny list, both lists being non-empty
C12_Witness ==
    /\ last.unit = "category_filter"
    /\ last.in.body.k = "obj"
    /\ ~NoCategory(last.in.body)
    /\ cfg.include # {}
    /\ cfg.exclude # {}
    /\ last.in.body.v[cfg.field].v \notin cfg.include \cup cfg.exclude
    /\ last.in.meta # EmptyMap
    /\ last.out.batch = <<>>

\* the value a record holds at a dotted path, by the description's rule: one
\* mapping level is descended per name; a name that is absent, or a value on
\* the way that is no mapping, gives nothing
RECURSIVE AtNames(_, _, _)
AtNames(value, names, i) ==
    IF i > Len(names) THEN value
    ELSE IF value.k # "obj" THEN VNull
    ELSE IF ~Has(value.v, names[i]) THEN VNull
    ELSE AtNames(value.v[names[i]], names, i + 1)
IsName(piece) == piece # "."
AtPath(body, path) == AtNames(body, SelectSeq(path, IsName), 1)
\* the id field is absent, empty or no string: read as a dotted path
NoIdAtPath(body, path) ==
    AtPath(body, path).k # "str" \/ AtPath(body, path).v = ""
\* the same, the configured text read as the name of one top-level field
NoIdAtField(body, path) ==
    \/ ~Has(body.v, PathText(path))
    \/ body.v[PathText(path)].k # "str"
    \/ body.v[PathText(path)].v = ""
\* the calls of the traversal in progress
Calls == {ran[i] : i \in 1..Len(ran)}

\* C13: on an object record whose configured id field is absent, empty or
\* no string, the asset enricher and the user enricher return the message
\* as it was, without error and without a lookup
C13_NoIdNoLookup ==
    /\ (/\ last.unit = "asset_enricher"
        /\ last.in.body.k = "obj"
        /\ NoIdAtPath(last.in.body, cfg.assetField)) =>
          last.out = Result(<<last.in>>, "", <<>>)
    /\ (/\ last.unit = "user_enricher"
        /\ last.in.body.k = "obj"
        /\ NoIdAtPath(last.in.body, cfg.userField)
        /\ NoIdAtField(last.in.body, cfg.userField)) =>
          last.out = Result(<<last.in>>, "", <<>>)

\* one traversal in which the asset enricher met an empty id and the user
\* enricher an id that is a number, while the endpoint would have answered
C13_Witness ==
    /\ \E call \in Calls :
          /\ call.unit = "asset_enricher"
          /\ call.in.body.k = "obj"
          /\ Has(call.in.body.v, "asset_id")
          /\ call.in.body.v["asset_id"] = VStr("")
          /\ NoIdAtPath(call.in.body, cfg.assetField)
          /\ call.served # <<>>
    /\ \E call \in Calls :
          /\ call.unit = "user_enricher"
          /\ call.in.body.k = "obj"
          /\ Has(call.in.body.v, "user_id")
          /\ call.in.body.v["user_id"].k = "num"
          /\ NoIdAtPath(call.in.body, cfg.userField)
          /\ NoIdAtField(call.in.body, cfg.userField)
          /\ call.served # <<>>

\* the lookup failed: transport error or timeout, status >= 400, or a body
\* that is undecodable, no object, or null
LookupFailed(res) ==
    res.err # "" \/ res.status >= 400 \/ res.body.k # "obj"
\* message m is message old with the marker added to the metadata and
\* nothing else changed
Marked(m, old, marker, text) ==
    /\ m.body = old.body
    /\ DOMAIN m.meta = DOMAIN old.meta \cup {marker}
    /\ m.meta[marker] = text
    /\ \A key \in DOMAIN old.meta \ {marker} : m.meta[key] = old.meta[key]

\* C14: when the lookup of the asset enricher or of the user enricher
\* fails, the enricher returns the message without error, its body as it
\* was, and its metadata extended by asset_enrich_error (user_enrich_error)
\* holding the non-empty text of the error
C14_LookupFailureMarked ==
    /\ (/\ last.unit = "asset_enricher"
        /\ last.in.body.k = "obj"
        /\ ~NoIdAtPath(last.in.body, cfg.assetField)
        /\ LookupFailed(Reply(last.served, 1))) =>
          /\ last.out.err = ""
          /\ Len(last.out.batch) = 1
          /\ last.out.calls = <<AtPath(last.in.body, cfg.assetField).v>>
          /\ fetchJSON(Reply(last.served, 1)).err # ""
          /\ Marked(last.out.batch[1], last.in, "asset_enrich_error",
                    fetchJSON(Reply(last.served, 1)).err)
    /\ (/\ last.unit = "user_enricher"
        /\ last.in.body.k = "obj"
        /\ ~NoIdAtField(last.in.body, cfg.userField)
        /\ LookupFailed(Reply(last.served, 1))) =>
          /\ last.out.err = ""
          /\ Len(last.out.batch) = 1
          /\ last.out.calls = <<last.in.body.v[PathText(cfg.userField)].v>>
          /\ fetchJSON(Reply(last.served, 1)).err # ""
          /\ Marked(last.out.batch[1], last.in, "user_enrich_error",
                    fetchJSON(Reply(last.served, 1)).err)

\* one traversal in which the asset lookup was answered 404 and the user
\* lookup timed out, on a message that arrived with an older marker
C14_Witness ==
    /\ \E call \in Calls :
          /\ call.unit = "asset_enricher"
          /\ call.out.calls # <<>>
          /\ Reply(call.served, 1) = RNotFound
          /\ Has(call.in.meta, "asset_enrich_error")
          /\ call.out.batch[1].meta["asset_enrich_error"]
                = "http status 404: not found"
    /\ \E call \in Calls :
          /\ call.unit = "user_enricher"
          /\ call.out.calls # <<>>
          /\ Reply(call.served, 1) = RTimeout
          /\ call.out.batch[1].meta["user_enrich_error"]
                = "context deadline exceeded"

\* an observable the description makes eligible for a lookup: a mapping
\* whose type_id is one of the seven numbers and whose name is a non-empty
\* string
EligibleTypes == {1, 2, 4, 5, 7, 8, 23}
Eligible(o) ==
    /\ o.k = "obj"
    /\ Has(o.v, "type_id")
    /\ o.v["type_id"].k \in {"num", "jnum"}
    /\ o.v["type_id"].v \in EligibleTypes
    /\ Has(o.v, "name")
    /\ o.v["name"].k = "str"
    /\ o.v["name"].v # ""
\* the number of eligible observables among the first i
Rank(obs, i) == Cardinality({j \in 1..i : Eligible(obs[j])})
\* the response to the lookup for the eligible observable at position i:
\* the lookups are answered in the order of the observables
AnswerFor(call, obs, i) == Reply(call.served, Rank(obs, i))
\* the observables of a body, none when the field is no sequence
ObservablesOf(body) ==
    IF body.k = "obj" /\ Has(body.v, "observables")
       /\ body.v["observables"].k = "arr"
    THEN body.v["observables"].v ELSE <<>>
\* a call of the threat intel enricher on an object record
IntelCall(call) ==
    call.unit = "threat_intel_enricher" /\ call.in.body.k = "obj"

\* C15: the threat intel enricher gives every eligible observable whose
\* lookup succeeded the field threat_intel holding the returned mapping and
\* changes nothing else of it; every other observable equals its input; the
\* sequence keeps its length and order, and no other top-level field and
\* no metadata changes
C15_InPlaceEnrichment ==
    IntelCall(last) =>
        /\ Len(last.out.batch) = 1
        /\ LET in == last.in.body
               out == last.out.batch[1].body
               obs == ObservablesOf(in)
           IN /\ out.k = "obj"
              /\ DOMAIN out.v = DOMAIN in.v
              /\ \A f \in DOMAIN in.v \ {"observables"} : out.v[f] = in.v[f]
              /\ last.out.batch[1].meta = last.in.meta
              /\ out.v # in.v => in.v["observables"].k = "arr"
              /\ Len(ObservablesOf(out)) = Len(obs)
              /\ \A i \in 1..Len(obs) :
                    IF Eligible(obs[i]) /\ ~LookupFailed(AnswerFor(last, obs, i))
                    THEN ObservablesOf(out)[i] =
                            VObj(Put(obs[i].v, "threat_intel",
                                     AnswerFor(last, obs, i).body))
                    ELSE ObservablesOf(out)[i] = obs[i]

\* a record with an eligible observable whose lookup failed, an ineligible
\* one, and an eligible one given as json.Number whose lookup succeeded
C15_Witness ==
    /\ IntelCall(last)
    /\ LET obs == ObservablesOf(last.in.body)
           out == ObservablesOf(last.out.batch[1].body)
       IN /\ \E i \in 1..Len(obs) :
                /\ Eligible(obs[i])
                /\ obs[i].v["type_id"].k = "jnum"
                /\ out[i].v["threat_intel"] = Intel("high")
          /\ \E i \in 1..Len(obs) :
                Eligible(obs[i]) /\ LookupFailed(AnswerFor(last, obs, i))
          /\ \E i \in 1..Len(obs) : ~Eligible(obs[i])

\* the names of the eligible observables, in the order of the sequence
EligibleNames(obs) ==
    LET picked == SelectSeq(obs, Eligible)
    IN [i \in 1..Len(picked) |-> picked[i].v["name"].v]

\* C16: on an object record the threat intel enricher makes exactly one
\* lookup for each eligible observable, in the order of the sequence, and
\* none for any other observable, whether or not earlier lookups failed; it
\* returns the message without error
C16_OneLookupEach ==
    IntelCall(last) =>
        /\ last.out.err = ""
        /\ Len(last.out.batch) = 1
        /\ last.out.calls = EligibleNames(ObservablesOf(last.in.body))

\* the first lookup failed and the lookup for a later eligible observable
\* was still made, next to observables that got none
C16_Witness ==
    /\ IntelCall(last)
    /\ Len(last.out.calls) >= 2
    /\ LookupFailed(Reply(last.served, 1))
    /\ ~LookupFailed(Reply(last.served, 2))
    /\ Len(ObservablesOf(last.in.body)) > Len(last.out.calls)

\* the observable carries a threat_intel field
Carries(o) == o.k = "obj" /\ Has(o.v, "threat_intel")
\* the lookup for the observable at position i was made and succeeded
Enriched(call, obs, i) ==
    Eligible(obs[i]) /\ ~LookupFailed(AnswerFor(call, obs, i))

\* C17 as stated: an observable leaving the threat intel enricher has a
\* threat_intel field if and only if its lookup succeeded in this traversal
C17_OnlyFreshIntel ==
    IntelCall(last) =>
        LET obs == ObservablesOf(last.in.body)
            out == ObservablesOf(last.out.batch[1].body)
        IN \A i \in 1..Len(obs) : Carries(out[i]) <=> Enriched(last, obs, i)

\* C17 amended: an observable leaving the threat intel enricher has a
\* threat_intel field if and only if its lookup succeeded in this traversal
\* or it arrived with one; an observable that was not eligible or whose
\* lookup failed keeps the threat_intel it arrived with, and has none when it
\* arrived with none
C17_FreshOrSubmittedIntel ==
    IntelCall(last) =>
        LET obs == ObservablesOf(last.in.body)
            out == ObservablesOf(last.out.batch[1].body)
        IN \A i \in 1..Len(obs) :
              /\ Carries(out[i]) <=>
                    (Enriched(last, obs, i) \/ Carries(obs[i]))
              /\ (~Enriched(last, obs, i) /\ Carries(obs[i])) =>
                    out[i].v["threat_intel"] = obs[i].v["threat_intel"]
              /\ Enriched(last, obs, i) =>
                    out[i].v["threat_intel"] = AnswerFor(last, obs, i).body

\* an eligible observable that arrived with threat_intel and whose lookup
\* failed left with the submitted value, next to an ineligible one that has
\* none and one that was enriched
C17_Witness ==
    /\ IntelCall(last)
    /\ LET obs == ObservablesOf(last.in.body)
           out == ObservablesOf(last.out.batch[1].body)
       IN /\ \E i \in 1..Len(obs) :
                /\ Eligible(obs[i])
                /\ Carries(obs[i])
                /\ LookupFailed(AnswerFor(last, obs, i))
                /\ out[i].v["threat_intel"] = Intel("old")
          /\ \E i \in 1..Len(obs) : ~Eligible(obs[i]) /\ ~Carries(out[i])
          /\ \E i \in 1..Len(obs) :
                Enriched(last, obs, i) /\ ~Carries(obs[i])

\* C18: the payload tagger applied to the message it has returned leaves
\* the metadata as it is, key for key and value for value, and neither
\* application changes the body
C18_TaggerIdempotent ==
    last.unit = "payload_tagger" =>
        /\ Len(last.out.batch) = 1
        /\ last.out.batch[1].body = last.in.body
        /\ LET once == last.out.batch[1]
               twice == payloadTaggerProcess(cfg, once)
           IN /\ twice.err = ""
              /\ Len(twice.batch) = 1
              /\ twice.batch[1].body = last.in.body
              /\ DOMAIN twice.batch[1].meta = DOMAIN once.meta
              /\ \A key \in DOMAIN once.meta :
                    twice.batch[1].meta[key] = once.meta[key]

\* the tagger ran twice in a row on a record with observables, and the
\* first run changed the metadata, the observable count it arrived with
\* included
C18_Witness ==
    /\ Len(ran) >= 2
    /\ \E i \in 1..(Len(ran) - 1) :
          /\ ran[i].unit = "payload_tagger"
          /\ ran[i + 1].unit = "payload_tagger"
          /\ ran[i + 1].in = ran[i].out.batch[1]
          /\ ran[i].out.batch[1].meta # ran[i].in.meta
          /\ Has(ran[i].in.meta, "tag.observable_count")
          /\ ran[i].out.batch[1].meta["tag.observable_count"]
                # ran[i].in.meta["tag.observable_count"]
          /\ ran[i + 1].out.batch[1].meta = ran[i].out.batch[1].meta

\* the chain of the end-to-end scenario: asset, user and threat intel
\* enricher, then the category filter allowing security only
EndToEndChain ==
    /\ cfg.units = <<"asset_enricher", "user_enricher",
                     "threat_intel_enricher", "category_filter">>
    /\ cfg.include = {"security"}
\* the event of the scenario went through that chain, its record holding
\* neither id field, and the endpoint answered the first lookup with
\* {severity: high}
EndToEndRun(d) ==
    /\ EndToEndChain
    /\ d.ran[1].in.body = Evil
    /\ NoIdAtPath(Evil, cfg.assetField)
    /\ NoIdAtPath(Evil, cfg.userField)
    /\ NoIdAtField(Evil, cfg.userField)
    /\ d.ran[1].served # <<>>
    /\ d.ran[1].served[1] = RHigh

\* C19: the event {class_uid: 2004, severity_id: 5, category: security,
\* observables: [{name: evil.exe, type_id: 7}]} run through asset enricher,
\* user enricher, threat intel enricher and category filter, with the
\* lookup for evil.exe answered {severity: high}, is forwarded: all four
\* processors ran, the only lookup is the one for evil.exe, every field of
\* the event has its input value and the observable has gained
\* threat_intel = {severity: high}
C19_EndToEnd ==
    \A d \in Departed :
        EndToEndRun(d) =>
            /\ d.outcome = "forward"
            /\ d.err = ""
            /\ Len(d.ran) = 4
            /\ \A i \in {1, 2, 4} : d.ran[i].out.calls = <<>>
            /\ d.ran[3].out.calls = <<"evil.exe">>
            /\ d.msg.meta = d.ran[1].in.meta
            /\ d.msg.body.k = "obj"
            /\ DOMAIN d.msg.body.v = DOMAIN Evil.v
            /\ \A f \in DOMAIN Evil.v \ {"observables"} :
                  d.msg.body.v[f] = Evil.v[f]
            /\ d.msg.body.v["observables"] =
                  VArr(<<VObj(("name" :> VStr("evil.exe"))
                              @@ ("type_id" :> VNum(7))
                              @@ ("threat_intel" :>
                                     VObj("severity" :> VStr("high"))))>>)

\* the event has left that chain
C19_Witness ==
    \E d \in Departed :
        /\ EndToEndRun(d)
        /\ cfg.exclude = {}
        /\ cfg.assetField = <<"asset_id">>
        /\ d.outcome = "forward"

\* a body that decoded to something that is no object
Decoded(body) == body.k # "invalid"
NoObject(body) == Decoded(body) /\ body.k # "obj"
\* the processors that need an object
ObjectUnits ==
    {"asset_enricher", "user_enricher", "threat_intel_enricher",
     "category_filter"}
\* what becomes of a message that traverses the processors from the i-th on
\* by itself, the endpoint answering rs
RECURSIVE Alone(_, _, _, _)
Alone(c, msg, rs, i) ==
    IF i > Len(c.units) THEN [outcome |-> "forward", err |-> "", msg |-> msg]
    ELSE LET out == Process(c.units[i], c, msg, rs) IN
         IF out.err # "" THEN [outcome |-> "fail", err |-> out.err, msg |-> msg]
         ELSE IF out.batch = <<>>
         THEN [outcome |-> "drop", err |-> "", msg |-> msg]
         ELSE Alone(c, out.batch[1],
                    SubSeq(rs, Len(out.calls) + 1, Len(rs)), i + 1)

\* C20: on a body that is no object the asset enricher, the user enricher,
\* the threat intel enricher and the category filter return the error
\* "<processor> expects object" and no message, without a lookup; the
\* message fails as it arrived, and the message after it fares as it would
\* have by itself
C20_NoObjectFails ==
    /\ (last.unit \in ObjectUnits /\ NoObject(last.in.body)) =>
          last.out = Result(<<>>, last.unit \o " expects object", <<>>)
    /\ \A i \in 1..Len(done) :
          (done[i].ran[1].unit \in ObjectUnits
           /\ NoObject(done[i].ran[1].in.body)) =>
             /\ done[i].outcome = "fail"
             /\ done[i].err = done[i].ran[1].unit \o " expects object"
             /\ Len(done[i].ran) = 1
             /\ done[i].msg = done[i].ran[1].in
             /\ i < Len(done) =>
                   LET next == done[i + 1]
                       alone == Alone(cfg, next.ran[1].in,
                                      done[i].ran[1].served, 1)
                   IN /\ next.outcome = alone.outcome
                      /\ next.err = alone.err
                      /\ next.msg = alone.msg

\* an array failed at the user enricher and the record after it was
\* enriched and forwarded
C20_Witness ==
    /\ Len(done) = 2
    /\ done[1].ran[1].unit = "user_enricher"
    /\ done[1].ran[1].in.body.k = "arr"
    /\ done[1].ran[1].served # <<>>
    /\ done[1].outcome = "fail"
    /\ done[2].outcome = "forward"
    /\ \E i \in 1..Len(done[2].ran) : done[2].ran[i].out.calls # <<>>
    /\ done[2].msg # done[2].ran[1].in

\* ------------------------------------------- the inputs of extractNestedField
\* the characters of a field path, a name standing for its characters
PathPieces == {"device", "uid", "x", "."}
\* longest field path
MaxPathLen == 5
FieldPaths == UNION {[1..n -> PathPieces] : n \in 0..MaxPathLen}
\* objects with and without the fields the paths name, at several depths
PathObjects ==
    {EmptyMap,
     "device" :> VObj("uid" :> VStr("d-1")),
     "device" :> VObj("uid" :> VStr("")),
     "device" :> VObj("uid" :> VNum(7)),
     "device" :> VObj("uid" :> VObj("x" :> VStr("deep"))),
     "device" :> VObj("uid" :> VNull),
     "device" :> VStr("d-1"),
     "device" :> VArr(<<VObj("uid" :> VStr("d-1"))>>),
     ("uid" :> VStr("top")) @@ ("x" :> VNull)
         @@ ("device" :> VObj(("device" :> VObj("uid" :> VStr("d-2")))
                              @@ ("x" :> VObj("uid" :> VStr("d-3"))))),
     ("deviceuid" :> VStr("joined")) @@ ("x" :> VObj("x" :> VObj("x"
                                                  :> VObj("x" :> VStr("4")))))}

\* ------------------------------------------------- extractNestedField alone
\* the asset enricher resolves its id field on the object of a message
Resolve ==
    /\ ~found.called
    /\ inbox # <<>>
    /\ found' = [called |-> TRUE,
                 value |-> extractNestedField(Head(inbox).body.v,
                                              cfg.assetField)]
    /\ UNCHANGED <<cfg, inbox, replies, cur, upos, ran, last, done, batched,
                   rvars>>

\* an asset enricher with the id field set to a path, and a message to
\* resolve it on
ResolveInit ==
    /\ ReceiverInit
    /\ cfg \in {Cfg(<<"asset_enricher">>, {}, {}, path, <<"user_id">>,
                     DefaultTagFields, FALSE) : path \in FieldPaths}
    /\ inbox \in {<<Message(VObj(obj), EmptyMap)>> : obj \in PathObjects}
    /\ replies = <<>>
    /\ cur = NoCur
    /\ upos = 0
    /\ ran = <<>>
    /\ last = NoLast
    /\ done = <<>>
    /\ batched = NoBatched
    /\ found = NoFound

NextResolve == Resolve
SpecResolve == ResolveInit /\ [][NextResolve]_vars

\* -------------------------------------------------- the tagger on batches
\* the host hands a batch to PayloadTagger.ProcessBatch
TagBatch ==
    /\ ~batched.called
    /\ LET out == payloadTaggerProcessBatch(cfg, inbox)
       IN batched' = [called |-> TRUE, in |-> inbox, out |-> out.batches,
                      err |-> out.err]
    /\ inbox' = <<>>
    /\ UNCHANGED <<cfg, replies, cur, upos, ran, last, done, found, rvars>>

\* a tagger with a batch to process
BatchInit ==
    /\ ReceiverInit
    /\ cfg \in TaggerConfigs
    /\ inbox \in Batches
    /\ replies = <<>>
    /\ cur = NoCur
    /\ upos = 0
    /\ ran = <<>>
    /\ last = NoLast
    /\ done = <<>>
    /\ batched = NoBatched
    /\ found = NoFound

NextBatch == TagBatch
SpecBatch == BatchInit /\ [][NextBatch]_vars

\* ----------------------------------------------------- claims on batches
\* json.Unmarshal cannot decode the body into a mapping: it is no JSON, or
\* a number, a string or a sequence
Unparseable(body) ==
    body.k \in {"invalid", "num", "jnum", "frac", "str", "arr"}
\* the messages ProcessBatch returned
Tagged == batched.out[1]

\* C21: ProcessBatch returns no error and one batch holding the input
\* messages in their order, each with its body as it was; a message whose
\* body cannot be decoded as a mapping keeps its metadata, and every
\* message gets the metadata it would get in a batch of its own
C21_TaggerNeverFails ==
    batched.called =>
        /\ batched.err = ""
        /\ Len(batched.out) = 1
        /\ Len(Tagged) = Len(batched.in)
        /\ \A i \in 1..Len(batched.in) :
              /\ Tagged[i].body = batched.in[i].body
              /\ Unparseable(batched.in[i].body) =>
                    Tagged[i].meta = batched.in[i].meta
              /\ Tagged[i] =
                    payloadTaggerProcessBatch(cfg, <<batched.in[i]>>).batches[1][1]

\* a batch whose first message is a sequence and whose second was tagged
C21_Witness ==
    /\ batched.called
    /\ Len(batched.in) = 2
    /\ batched.in[1].body.k = "arr"
    /\ batched.in[2].body = Evil
    /\ Has(Tagged[2].meta, "tag.class_uid")
    /\ ~Has(batched.in[2].meta, "tag.class_uid")

\* the fixed table of semantic labels, as the description gives it: the
\* labels of a code under a classifier field, none for any other number
MapOf(k1, v1, k2, v2) == (k1 :> v1) @@ (k2 :> v2)
NoLabels == [key \in {} |-> ""]
TableLabels(field, n) ==
    IF field = "class_uid"
    THEN IF n = 2004 THEN MapOf("tag.category", "detection", "tag.type", "alert")
         ELSE IF n = 5001
         THEN MapOf("tag.category", "asset", "tag.type", "inventory")
         ELSE IF n \in 4001..4003
         THEN MapOf("tag.category", "network", "tag.type", "activity")
         ELSE IF n \in 3001..3002 THEN "tag.category" :> "authentication"
         ELSE IF n \in 1001..1003
         THEN MapOf("tag.category", "system", "tag.type", "process")
         ELSE NoLabels
    ELSE IF field = "severity_id"
    THEN IF n = 1
         THEN MapOf("tag.severity", "informational", "tag.priority", "low")
         ELSE IF n = 2 THEN MapOf("tag.severity", "low", "tag.priority", "low")
         ELSE IF n = 3
         THEN MapOf("tag.severity", "medium", "tag.priority", "medium")
         ELSE IF n = 4 THEN MapOf("tag.severity", "high", "tag.priority", "high")
         ELSE IF n \in {5, 6}
         THEN MapOf("tag.severity", "critical", "tag.priority", "critical")
         ELSE NoLabels
    ELSE IF field = "category_uid"
    THEN IF n = 1 THEN "tag.domain" :> "system"
         ELSE IF n = 2 THEN "tag.domain" :> "findings"
         ELSE IF n = 3 THEN "tag.domain" :> "identity"
         ELSE IF n = 4 THEN "tag.domain" :> "network"
         ELSE IF n = 5 THEN "tag.domain" :> "discovery"
         ELSE NoLabels
    ELSE NoLabels
\* the value is a JSON number; it is a whole number
Numeric(x) == x.k \in {"num", "jnum", "frac"}
Whole(x) == x.k \in {"num", "jnum"}
\* the labels the table gives a value: a number that is no whole number is
\* no code of the table
LabelsOf(field, x) == IF Whole(x) THEN TableLabels(field, x.v) ELSE NoLabels
\* the text of a number
NumberText(x) == IF Whole(x) THEN ToString(x.v) ELSE ToString(x.v) \o ".5"
Classifiers == {"class_uid", "severity_id", "category_uid"}
LabelKeys ==
    {"tag.category", "tag.type", "tag.severity", "tag.priority", "tag.domain"}
\* field is one of the configured tag fields
Configured(field) == \E i \in 1..Len(cfg.tagFields) : cfg.tagFields[i] = field

\* an object record was tagged in a batch of its own
TaggedAlone ==
    /\ batched.called
    /\ Len(batched.in) = 1
    /\ batched.in[1].body.k = "obj"
\* the record holds a number under the classifier field, and the field is
\* one the tagger is configured to read
Classifier(field) ==
    /\ field \in Classifiers
    /\ Configured(field)
    /\ Has(batched.in[1].body.v, field)
    /\ Numeric(batched.in[1].body.v[field])
\* the metadata holds the raw tag of the field and the labels of the table
RawAndTable(field) ==
    LET x == batched.in[1].body.v[field]
        meta == Tagged[1].meta
    IN /\ Has(meta, "tag." \o field)
       /\ meta["tag." \o field] = NumberText(x)
       /\ \A key \in DOMAIN LabelsOf(field, x) :
             Has(meta, key) /\ meta[key] = LabelsOf(field, x)[key]
\* a label the metadata holds comes from the table, unless the message
\* arrived with it or it is the raw tag of a field named category
NoOtherLabel(unless(_)) ==
    \A key \in LabelKeys :
        Has(Tagged[1].meta, key) =>
            \/ \E field \in Classifiers :
                  /\ Classifier(field)
                  /\ unless(batched.in[1].body.v[field])
                  /\ key \in DOMAIN LabelsOf(field, batched.in[1].body.v[field])
            \/ Has(batched.in[1].meta, key)
            \/ /\ key = "tag.category"
               /\ Configured("category")
               /\ Has(batched.in[1].body.v, "category")
AnyNumber(x) == TRUE

\* C22: for class_uid, severity_id and category_uid holding a number, the
\* tagger writes the raw tag and the labels the fixed table gives the code;
\* a number outside the table gets the raw tag only
C22_SemanticTable ==
    TaggedAlone =>
        /\ \A field \in Classifiers : Classifier(field) => RawAndTable(field)
        /\ NoOtherLabel(AnyNumber)

\* a whole number that %v prints with its decimal digits
Plain(x) == Whole(x) /\ x.v < 1000000
\* the same for records whose classifiers are whole numbers below 1e+06
WholeCodesTagged ==
    (TaggedAlone
     /\ \A field \in Classifiers :
           Classifier(field) => Plain(batched.in[1].body.v[field])) =>
        /\ \A field \in Classifiers : Classifier(field) => RawAndTable(field)
        /\ NoOtherLabel(Plain)

\* a class_uid of 1000000 was given the raw tag 1e+06
ExponentTag ==
    /\ TaggedAlone
    /\ Classifier("class_uid")
    /\ batched.in[1].body.v["class_uid"] = VNum(1000000)
    /\ Tagged[1].meta["tag.class_uid"] = "1e+06"

\* a class_uid of 2004.5 was tagged detection / alert
TruncatedCode ==
    /\ TaggedAlone
    /\ Classifier("class_uid")
    /\ batched.in[1].body.v["class_uid"] = VFrac(2004)
    /\ Tagged[1].meta["tag.class_uid"] = "2004.5"
    /\ Tagged[1].meta["tag.category"] = "detection"
    /\ Tagged[1].meta["tag.type"] = "alert"

\* the tagger has set the key to the value; it has left the key alone
SetTo(key, value) == Has(Tagged[1].meta, key) /\ Tagged[1].meta[key] = value
LeftAlone(key) ==
    /\ Has(Tagged[1].meta, key) <=> Has(batched.in[1].meta, key)
    /\ Has(Tagged[1].meta, key) =>
          Tagged[1].meta[key] = batched.in[1].meta[key]
\* the key is set to the value if and only if the condition holds
SetIff(cond, key, value) == IF cond THEN SetTo(key, value) ELSE LeftAlone(key)
\* the shape of the record, as the description reads it
ShapeObservables ==
    LET body == batched.in[1].body.v IN
    IF Has(body, "observables") /\ body["observables"].k = "arr"
    THEN body["observables"].v ELSE <<>>
ShapeHasIntel ==
    \E i \in 1..Len(ShapeObservables) :
        /\ ShapeObservables[i].k = "obj"
        /\ Has(ShapeObservables[i].v, "threat_intel")
\* status_id is a number; it equals 1
ShapeStatus == Has(batched.in[1].body.v, "status_id")
               /\ Numeric(batched.in[1].body.v["status_id"])
ShapeStatusOne == ShapeStatus /\ batched.in[1].body.v["status_id"] = VNum(1)
\* the tags of the shape of the record, the status tag apart
ShapeTags ==
    /\ SetIff(ShapeObservables # <<>>, "tag.has_observables", "true")
    /\ SetIff(ShapeObservables # <<>>, "tag.observable_count",
              ToString(Len(ShapeObservables)))
    /\ SetIff(ShapeHasIntel, "tag.has_threat_intel", "true")
    /\ SetIff(ShapeHasIntel, "tag.threat_detected", "true")
    /\ SetIff(Has(batched.in[1].body.v, "asset"), "tag.enriched", "asset")
StatusTag ==
    IF ShapeStatusOne THEN SetTo("tag.status", "success")
    ELSE IF ShapeStatus THEN SetTo("tag.status", "failure")
    ELSE LeftAlone("tag.status")

\* C23: the tagger sets tag.has_observables and tag.observable_count
\* exactly when observables is a non-empty sequence, tag.has_threat_intel
\* and tag.threat_detected exactly when one of its observables has a
\* threat_intel field, tag.enriched exactly when the record has an asset
\* field, tag.status=success exactly when status_id is a number equal to 1,
\* tag.status=failure exactly when it is a number different from 1
C23_ShapeTags == TaggedAlone => (ShapeTags /\ StatusTag)

\* the same for a status_id that is a whole number or no number
WholeStatusTagged ==
    (TaggedAlone
     /\ (ShapeStatus => Whole(batched.in[1].body.v["status_id"]))) =>
        (ShapeTags /\ StatusTag)

\* the shape tags by themselves
ShapeTagged == TaggedAlone => ShapeTags

\* a status_id of 1.5 was tagged success
TruncatedStatus ==
    /\ TaggedAlone
    /\ ShapeStatus
    /\ batched.in[1].body.v["status_id"] = VFrac(1)
    /\ Tagged[1].meta["tag.status"] = "success"

\* ---------------------------------------------------- claims on the receiver
\* C24: a Read call whose deadline passes with no event returns a result
\* that is no error, and no not-connected error in particular, and leaves
\* the receiver as it was: nothing makes the host connect again
C24_EmptyIsNoError ==
    [][\A p \in Pollers :
          (ps[p].pc = "select" /\ ps'[p].pc = "idle"
           /\ lastRead'.result = "timeout") =>
             /\ ErrorOf(lastRead'.result) = NoError
             /\ ErrorOf(lastRead'.result) # ErrNotConnected
             /\ needConnect' = needConnect
             /\ UNCHANGED <<eventChan, closed, servers, server, wg>>]_vars

\* a Read call has timed out and the host has connected a second time
ReconnectedAfterTimeout ==
    /\ lastRead.result = "timeout"
    /\ Len(servers) = 2

\* ------------------------------------------------ claims on the id fields
\* the user enricher runs on an object body
UserCall == last.unit = "user_enricher" /\ last.in.body.k = "obj"

\* C25: whenever the configured id field of the user enricher,
\* read as a dotted path, leads to a non-empty string of the record, the
\* user enricher issues one lookup, for that string
C25_UserIdIsPath ==
    (UserCall /\ ~NoIdAtPath(last.in.body, cfg.userField)) =>
        last.out.calls = <<AtPath(last.in.body, cfg.userField).v>>

\* what the code does: the user enricher reads the configured id field as
\* the name of one top-level field of the record, dots included: it issues one lookup, for
\* the non-empty string that field holds, and none when the record has no
\* such field or the field holds no non-empty string, whatever the text
\* leads to when read as a dotted path
UserIdIsField ==
    UserCall =>
        IF NoIdAtField(last.in.body, cfg.userField)
        THEN last.out = Result(<<last.in>>, "", <<>>)
        ELSE last.out.calls = <<last.in.body.v[PathText(cfg.userField)].v>>

\* with id_field user.uid the user enricher made no lookup for the record
\* whose user.uid is u-1 and returned it as it was
NestedNotLookedUp ==
    /\ cfg.userField = <<"user", ".", "uid">>
    /\ UserCall
    /\ last.in.body = Nested
    /\ AtPath(last.in.body, cfg.userField) = VStr("u-1")
    /\ last.out = Result(<<last.in>>, "", <<>>)

\* with id_field user.uid the user enricher looked up u-3 for the record
\* with the field named "user.uid"
DottedLookedUp ==
    /\ cfg.userField = <<"user", ".", "uid">>
    /\ UserCall
    /\ last.in.body = Dotted
    /\ last.out.calls = <<"u-3">>

\* --------------------------------------------- claims on extractNestedField
\* the position of the first separator of a path, or one past its end
FirstDot(path) ==
    IF \E i \in 1..Len(path) : path[i] = "."
    THEN CHOOSE i \in 1..Len(path) :
            path[i] = "." /\ \A j \in 1..(i - 1) : path[j] # "."
    ELSE Len(path) + 1
\* the segments s1, ..., sn of the dotted path s1.s2...sn; a path with a dot
\* at an end or two dots in a row is read as the path without them
RECURSIVE Segments(_)
Segments(path) ==
    IF path = <<>> THEN <<>>
    ELSE LET d == FirstDot(path)
             head == PathText(SubSeq(path, 1, d - 1))
             rest == Segments(SubSeq(path, d + 1, Len(path)))
         IN IF head = "" THEN rest ELSE <<head>> \o rest
\* every segment is present and every value on the way is a mapping
RECURSIVE Leads(_, _, _)
Leads(value, names, i) ==
    \/ i > Len(names)
    \/ /\ value.k = "obj"
       /\ Has(value.v, names[i])
       /\ Leads(value.v[names[i]], names, i + 1)
\* the object and the path of the call
ResolvedOn == VObj(Head(inbox).body.v)
ResolvedPath == Segments(cfg.assetField)

\* C26: extractNestedField gives the string found by descending one mapping
\* level per segment of the path when every segment is present, every value
\* on the way is a mapping and the value arrived at is a string; in every
\* other case, the path without a segment included, it gives ""
C26_NestedPath ==
    found.called =>
        IF /\ ResolvedPath # <<>>
           /\ Leads(ResolvedOn, ResolvedPath, 1)
           /\ AtNames(ResolvedOn, ResolvedPath, 1).k = "str"
        THEN found.value = AtNames(ResolvedOn, ResolvedPath, 1).v
        ELSE found.value = ""

\* the path device.device.uid was resolved to the string two levels down
C26_Witness ==
    /\ found.called
    /\ cfg.assetField = <<"device", ".", "device", ".", "uid">>
    /\ found.value = "d-2"

\* the path device.uid met a string where it needed a mapping
C26_NoMapping ==
    /\ found.called
    /\ cfg.assetField = <<"device", ".", "uid">>
    /\ ResolvedOn.v["device"] = VStr("d-1")
    /\ found.value = ""

\* ------------------------------------------------ claims on error markers
\* the asset enricher runs on an object body
AssetCall == last.unit = "asset_enricher" /\ last.in.body.k = "obj"
\* the call returned one message that holds the marker, its body as it was
ReturnedWith(marker) ==
    /\ Len(last.out.batch) = 1
    /\ last.out.batch[1].body = last.in.body
    /\ Has(last.out.batch[1].meta, marker)

\* C27 as stated: when the id field of the asset enricher or of the user
\* enricher is absent or holds no string, the message the enricher returns
\* has the body as it was and holds the enricher's error marker
C27_MissMarked ==
    /\ (AssetCall /\ NoIdAtPath(last.in.body, cfg.assetField)) =>
          ReturnedWith("asset_enrich_error")
    /\ (/\ UserCall
        /\ NoIdAtPath(last.in.body, cfg.userField)
        /\ NoIdAtField(last.in.body, cfg.userField)) =>
          ReturnedWith("user_enrich_error")

\* C27: when the id field of the asset enricher (a dotted path) or of the
\* user enricher (a top-level field) is absent or holds no non-empty string,
\* the enricher returns the message without error and with the body and the
\* metadata as they were: no marker is attached, and a marker the message
\* arrived with stays as it was
C27_MissUnmarked ==
    /\ (AssetCall /\ NoIdAtPath(last.in.body, cfg.assetField)) =>
          /\ last.out.err = ""
          /\ Len(last.out.batch) = 1
          /\ last.out.batch[1].body = last.in.body
          /\ last.out.batch[1].meta = last.in.meta
    /\ (UserCall /\ NoIdAtField(last.in.body, cfg.userField)) =>
          /\ last.out.err = ""
          /\ Len(last.out.batch) = 1
          /\ last.out.batch[1].body = last.in.body
          /\ last.out.batch[1].meta = last.in.meta

\* the asset enricher met an asset_id that is a number on a message without
\* metadata and returned it without metadata
C27_Witness ==
    /\ AssetCall
    /\ cfg.assetField = <<"asset_id">>
    /\ last.in.body = Flat
    /\ last.in.meta = EmptyMap
    /\ last.out.batch = <<last.in>>

\* the positions of the observables whose lookup was made and failed
FailedAt(call) ==
    LET obs == ObservablesOf(call.in.body)
    IN {i \in 1..Len(obs) :
           Eligible(obs[i]) /\ LookupFailed(AnswerFor(call, obs, i))}
\* a call of the threat intel enricher in which a lookup failed
IntelFailure(call) == IntelCall(call) /\ FailedAt(call) # {}

\* C28: after a call of the threat intel enricher in which the
\* lookup for an observable failed, the metadata of the record holds a
\* marker it did not hold before
C28_IntelFailureMarked ==
    IntelFailure(last) =>
        /\ Len(last.out.batch) = 1
        /\ last.out.batch[1].meta # last.in.meta

\* what the code does: a failed lookup of the asset enricher or of the user
\* enricher leaves the marker asset_enrich_error or user_enrich_error in the metadata; a
\* failed lookup of the threat intel enricher leaves no trace in the record:
\* the message is returned without error, its metadata as they were, and
\* the observable whose lookup failed as it was
IntelFailureUnmarked ==
    /\ IntelFailure(last) =>
          /\ last.out.err = ""
          /\ Len(last.out.batch) = 1
          /\ last.out.batch[1].meta = last.in.meta
          /\ \A i \in FailedAt(last) :
                ObservablesOf(last.out.batch[1].body)[i]
                    = ObservablesOf(last.in.body)[i]
    /\ (/\ AssetCall
        /\ last.out.calls # <<>>
        /\ LookupFailed(Reply(last.served, 1))) =>
          ReturnedWith("asset_enrich_error")
    /\ (/\ UserCall
        /\ last.out.calls # <<>>
        /\ LookupFailed(Reply(last.served, 1))) =>
          ReturnedWith("user_enrich_error")

\* the threat intel enricher enriched one observable, failed to look up
\* another, and returned the message without metadata as it had come
IntelFailureSilent ==
    /\ IntelFailure(last)
    /\ \E i \in 1..Len(ObservablesOf(last.in.body)) :
          Enriched(last, ObservablesOf(last.in.body), i)
    /\ last.in.meta = EmptyMap
    /\ last.out.batch[1].meta = EmptyMap

\* ------------------------------------------- claims on the enriched record
\* C29: after a call of the threat intel enricher in which the lookup for an
\* observable succeeded, the body of the record has the field
\* threat_intel_observables, a non-empty sequence holding the mappings the
\* successful lookups returned
C29_IntelObservablesField ==
    (/\ IntelCall(last)
     /\ \E i \in 1..Len(ObservablesOf(last.in.body)) :
           Enriched(last, ObservablesOf(last.in.body), i)) =>
        LET obs == ObservablesOf(last.in.body)
            body == last.out.batch[1].body.v
        IN /\ Has(body, "threat_intel_observables")
           /\ body["threat_intel_observables"].k = "arr"
           /\ \A i \in 1..Len(obs) :
                 Enriched(last, obs, i) =>
                    \E j \in 1..Len(body["threat_intel_observables"].v) :
                       LET r == body["threat_intel_observables"].v[j]
                       IN \/ r = AnswerFor(last, obs, i).body
                          \/ /\ r.k = "obj"
                             /\ Has(r.v, "threat_intel")
                             /\ r.v["threat_intel"]
                                   = AnswerFor(last, obs, i).body

\* the threat intel enricher enriched evil.exe and returned a body without
\* the field threat_intel_observables
NoIntelObservablesField ==
    /\ IntelCall(last)
    /\ last.in.body = Evil
    /\ Enriched(last, ObservablesOf(Evil), 1)
    /\ ~Has(last.out.batch[1].body.v, "threat_intel_observables")

\* ---------------------------------------------------- claims on the tags
\* the tags field of a body, and whether it has one
HasTags(body) == body.k = "obj" /\ Has(body.v, "tags")
TagsOf(body) == body.v["tags"]
\* sequence p is a prefix of sequence q
IsPrefix(p, q) == Len(p) <= Len(q) /\ SubSeq(q, 1, Len(p)) = p
\* the tags of body after are the tags of body before with tags appended:
\* a sequence is extended, a value of another type is still there, and tags
\* appear where there were none only as a sequence
Extends(before, after) ==
    IF ~HasTags(before) THEN HasTags(after) => TagsOf(after).k = "arr"
    ELSE /\ HasTags(after)
         /\ IF TagsOf(before).k = "arr"
            THEN /\ TagsOf(after).k = "arr"
                 /\ IsPrefix(TagsOf(before).v, TagsOf(after).v)
            ELSE TagsOf(after) = TagsOf(before)
\* the message a call returned, if it returned one
Returned(call) == call.out.err = "" /\ Len(call.out.batch) = 1

\* C30: for every processor and every record, the tags the record has
\* before the call are a prefix of the tags it has after it; a tags value of
\* any type is never removed, reordered or replaced
C30_TagsAppendOnly ==
    (last.unit # "" /\ last.in.body.k = "obj" /\ Returned(last)) =>
        Extends(last.in.body, last.out.batch[1].body)

\* the same for the records whose tags field, if any, is a sequence
SequenceTagsAppendOnly ==
    (/\ last.unit # ""
     /\ last.in.body.k = "obj"
     /\ Returned(last)
     /\ HasTags(last.in.body) => TagsOf(last.in.body).k = "arr") =>
        Extends(last.in.body, last.out.batch[1].body)

\* the asset enricher appended its tags to the two the record came with
TagsAppended ==
    /\ AssetCall
    /\ HasTags(last.in.body)
    /\ Returned(last)
    /\ last.out.calls # <<>>
    /\ TagsOf(last.in.body) = VArr(<<VStr("seen"), VNum(1)>>)
    /\ \E n \in 3..4 : Len(TagsOf(last.out.batch[1].body).v) = n

\* the asset enricher put a sequence in the place of the tags "prod"
TagsReplaced ==
    /\ AssetCall
    /\ HasTags(last.in.body)
    /\ Returned(last)
    /\ last.out.calls # <<>>
    /\ TagsOf(last.in.body) = VStr("prod")
    /\ TagsOf(last.out.batch[1].body).k = "arr"

\* ------------------------------------------------ claims on the asset tags
\* field f of the object holds a number, and the number it holds
HoldsNumber(obj, f) == Has(obj, f) /\ IsNumber(obj[f])
\* the number is n; the number n + 1/2 is no integer
NumberIs(obj, f, n) ==
    HoldsNumber(obj, f) /\ obj[f].k # "frac" /\ obj[f].v = n
\* the number is n or more; n + 1/2 >= m exactly when n >= m
NumberAtLeast(obj, f, n) == HoldsNumber(obj, f) /\ obj[f].v >= n
\* the tags in the order of the description, each when its condition holds
TagIf(cond, tag) == IF cond THEN <<VStr(tag)>> ELSE <<>>
ContextualTags(obj, data) ==
    LET detection == NumberIs(obj, "class_uid", 2004)
        process == NumberIs(obj, "class_uid", 1007)
    IN TagIf(detection, "ocsf_detection_finding")
       \o TagIf(detection /\ NumberAtLeast(obj, "severity_id", 4),
                "high_severity")
       \o TagIf(detection /\ NumberIs(obj, "severity_id", 5),
                "critical_severity")
       \o TagIf(/\ detection
                /\ Has(obj, "finding")
                /\ obj["finding"].k = "obj"
                /\ Has(obj["finding"].v, "title")
                /\ obj["finding"].v["title"].k = "str"
                /\ obj["finding"].v["title"].v # "",
                "has_finding_title")
       \o TagIf(process, "ocsf_process_activity")
       \o TagIf(process, "edr_event")
       \o TagIf(/\ Has(obj, "observables")
                /\ obj["observables"].k = "arr"
                /\ obj["observables"].v # <<>>,
                "has_observables")
       \o TagIf(IsString(data, "owner", "IT"), "it_asset")
       \o TagIf(IsString(data, "criticality", "high"), "critical_asset")
\* the tags the record came with, none when the field is no sequence
TagsBefore(body) ==
    IF HasTags(body) /\ TagsOf(body).k = "arr" THEN TagsOf(body).v ELSE <<>>
\* the asset enricher made its lookup and the lookup succeeded
AssetFetched ==
    /\ AssetCall
    /\ last.out.calls # <<>>
    /\ ~LookupFailed(Reply(last.served, 1))
\* the numbers of the class and the severity are float64 values
Float64Classes ==
    \A f \in {"class_uid", "severity_id"} :
       Has(last.in.body.v, f) => last.in.body.v[f].k # "jnum"

\* C31: after a successful lookup the asset enricher has appended to the
\* tags of the record the tags of the description, in its order, each
\* exactly when its condition holds of the record and of the fetched
\* mapping; when the lookup did not succeed the body is as it was
C31_ContextualTags ==
    /\ AssetFetched =>
          /\ Returned(last)
          /\ HasTags(last.out.batch[1].body)
          /\ TagsOf(last.out.batch[1].body)
                = VArr(TagsBefore(last.in.body)
                       \o ContextualTags(last.in.body.v,
                                         Reply(last.served, 1).body.v))
    /\ (AssetCall /\ ~AssetFetched) =>
          /\ Returned(last)
          /\ last.out.batch[1].body = last.in.body

\* the same for records whose class and severity are float64 values
Float64ContextualTags ==
    (AssetCall /\ Float64Classes) => C31_ContextualTags

\* the asset enricher fetched the asset of a record whose class_uid is the
\* json.Number 2004 and appended no ocsf_detection_finding
NumberClassUntagged ==
    /\ AssetFetched
    /\ Has(last.in.body.v, "class_uid")
    /\ last.in.body.v["class_uid"] = VJNum(2004)
    /\ TagsOf(last.out.batch[1].body).v = <<VStr("it_asset"),
                                            VStr("critical_asset")>>

\* the asset enricher appended all the tags of a critical detection finding
AllFindingTags ==
    /\ AssetFetched
    /\ TagsOf(last.out.batch[1].body).v
          = <<VStr("ocsf_detection_finding"), VStr("high_severity"),
              VStr("critical_severity"), VStr("has_finding_title"),
              VStr("it_asset"), VStr("critical_asset")>>

\* ------------------------------------------- claims on the output fields
\* the user enricher made its lookup and the lookup succeeded
UserFetched ==
    /\ UserCall
    /\ last.out.calls # <<>>
    /\ ~LookupFailed(Reply(last.served, 1))
\* the call returned the one message it was given, with the field output
\* set to the mapping the lookup returned, no field other than output and
\* those of also changed, and the metadata as they were
Attached(output, also) ==
    /\ Returned(last)
    /\ LET before == last.in.body.v
           after == last.out.batch[1].body.v
       IN /\ last.out.batch[1].body.k = "obj"
          /\ Has(after, output)
          /\ after[output] = Reply(last.served, 1).body
          /\ DOMAIN before \subseteq DOMAIN after
          /\ DOMAIN after \subseteq DOMAIN before \cup {output} \cup also
          /\ \A f \in DOMAIN before \ ({output} \cup also) :
                after[f] = before[f]
    /\ last.out.batch[1].meta = last.in.meta

\* C32: after a successful lookup the asset enricher returns the one input
\* message with the field asset set to the mapping returned, and the user
\* enricher with the field user set to it; every other field of the body,
\* tags excepted for the asset enricher, has its input value, and the
\* metadata are as they were
C32_OutputField ==
    /\ AssetFetched => Attached("asset", {"tags"})
    /\ UserFetched => Attached("user", {})

\* the user enricher looked up u-3 and set the field user, which held the
\* sub-record of the user before, to the mapping returned
C32_Witness ==
    /\ UserFetched
    /\ last.in.body = Dotted
    /\ last.out.batch[1].body.v["user"] = Reply(last.served, 1).body
    /\ last.out.batch[1].body.v["user.uid"] = VStr("u-3")

\* ------------------------------------------------------ claims on fetchJSON
\* the response to the one lookup of the asset or the user enricher
Looked ==
    /\ AssetCall \/ UserCall
    /\ last.out.calls # <<>>
    /\ Returned(last)
Answered == Reply(last.served, 1)
\* the field and the marker of the enricher that ran
OutputOf(unit) == IF unit = "asset_enricher" THEN "asset" ELSE "user"
MarkerOf(unit) ==
    IF unit = "asset_enricher" THEN "asset_enrich_error"
    ELSE "user_enrich_error"
\* the lookup succeeded: the mapping was attached; it failed: the body is
\* as it was and the marker holds the text of the error
Succeeded ==
    /\ Has(last.out.batch[1].body.v, OutputOf(last.unit))
    /\ last.out.batch[1].body.v[OutputOf(last.unit)] = Answered.body
    /\ last.out.batch[1].meta = last.in.meta
FailedWith ==
    IF last.out.batch[1].body = last.in.body
       /\ Has(last.out.batch[1].meta, MarkerOf(last.unit))
    THEN last.out.batch[1].meta[MarkerOf(last.unit)]
    ELSE ""
\* text is "http status <code>: " followed by the first 1024 bytes of body,
\* or by all of body when it has no more
Diagnoses(text, code, body) ==
    LET intro == "http status " \o ToString(code) \o ": "
        read == IF Len(body) < 1024 THEN Len(body) ELSE 1024
    IN /\ Len(text) = Len(intro) + read
       /\ SubSeq(text, 1, Len(intro)) = intro
       /\ SubSeq(text, Len(intro) + 1, Len(text)) = SubSeq(body, 1, read)

\* C33: a lookup succeeds exactly when there is no transport error or
\* timeout, the status is below 400 and the body decodes to an object; with
\* a status of 400 or more it fails with the status code and the first 1024
\* bytes of the body at most; a transport error or timeout fails with its
\* text; a body that does not decode, is no object or is null fails
C33_LookupOutcome ==
    Looked =>
        /\ Succeeded <=> (/\ Answered.err = ""
                          /\ Answered.status < 400
                          /\ Answered.body.k = "obj")
        /\ ~Succeeded => FailedWith # ""
        /\ Answered.err # "" => FailedWith = Answered.err
        /\ (Answered.err = "" /\ Answered.status >= 400) =>
              Diagnoses(FailedWith, Answered.status, Answered.text)
        /\ (/\ Answered.err = ""
            /\ Answered.status < 400
            /\ Answered.body.k = "null") => FailedWith = "empty body"

\* a lookup answered 500 with 1028 bytes failed with a text that ends with
\* the 1024th byte of the body
C33_Witness ==
    /\ Looked
    /\ Answered.status = 500
    /\ Len(Answered.text) = 1028
    /\ Len(FailedWith) = Len("http status 500: ") + 1024

\* a lookup answered 399 with an object succeeded
AnsweredBelow400 ==
    /\ Looked
    /\ Answered.status = 399
    /\ Succeeded

\* -------------------------------------------------------- claims on drops
\* the call returned no message and no error
Dropped(call) == call.out.err = "" /\ call.out.batch = <<>>
EnricherUnits == {"asset_enricher", "user_enricher", "threat_intel_enricher"}

\* C34: on an object record the asset enricher, the user enricher and the
\* threat intel enricher return, whatever the lookups give, no error and a
\* batch of one message, an object; no processor but the category filter
\* returns an empty batch without error, so a message that left the
\* pipeline dropped was dropped by the category filter
C34_OnlyFilterDrops ==
    /\ (last.unit \in EnricherUnits /\ last.in.body.k = "obj") =>
          /\ last.out.err = ""
          /\ Len(last.out.batch) = 1
          /\ last.out.batch[1].body.k = "obj"
          /\ DOMAIN last.in.body.v \subseteq DOMAIN last.out.batch[1].body.v
    /\ (last.unit # "" /\ Dropped(last)) => last.unit = "category_filter"
    /\ \A d \in Departed :
          d.outcome = "drop" =>
             d.ran[Len(d.ran)].unit = "category_filter"

\* every lookup of the threat intel enricher failed and the message was
\* returned, after which the category filter dropped it
C34_Witness ==
    /\ \E call \in Calls :
          /\ IntelFailure(call)
          /\ call.out.batch[1].body = call.in.body
          /\ Len(call.out.calls) >= 2
    /\ last.unit = "category_filter"
    /\ Dropped(last)

\* ---------------------------------------------- claims on the fields kept
\* observable after is observable before, or before with threat_intel added
GainedIntel(before, after) ==
    \/ after = before
    \/ /\ before.k = "obj"
       /\ after.k = "obj"
       /\ ~Has(before.v, "threat_intel")
       /\ DOMAIN after.v = DOMAIN before.v \cup {"threat_intel"}
       /\ \A f \in DOMAIN before.v : after.v[f] = before.v[f]
\* field f of the record before is in the record after with its value; the
\* elements of observables may have gained threat_intel and tags entries
KeptField(f, before, after) ==
    /\ Has(after, f)
    /\ IF f = "tags" /\ before[f].k = "arr"
       THEN after[f].k = "arr" /\ IsPrefix(before[f].v, after[f].v)
       ELSE IF f = "observables" /\ before[f].k = "arr"
       THEN /\ after[f].k = "arr"
            /\ Len(after[f].v) = Len(before[f].v)
            /\ \A i \in 1..Len(before[f].v) :
                  GainedIntel(before[f].v[i], after[f].v[i])
       ELSE after[f] = before[f]
\* a call on an object record that returned the message
ReturnedObject ==
    last.unit # "" /\ last.in.body.k = "obj" /\ Returned(last)
\* the value of field f that the call replaces by design or by C30
Replaceable(f) ==
    \/ f = "asset" /\ last.unit = "asset_enricher"
    \/ f = "user" /\ last.unit = "user_enricher"
    \/ f = "tags" /\ last.unit = "asset_enricher"
                  /\ last.in.body.v[f].k # "arr"
    \/ f = "observables" /\ last.unit = "threat_intel_enricher"

\* C35: for every processor and every object record, each field of the
\* record is in the record the processor returns with the value it had;
\* only may the elements of observables have gained threat_intel and tags
\* have gained entries at its end
C35_FieldsKept ==
    ReturnedObject =>
        \A f \in DOMAIN last.in.body.v :
           KeptField(f, last.in.body.v, last.out.batch[1].body.v)

\* the same for the fields other than the output field of the enricher
\* that runs, tags that are no sequence, and observables
OtherFieldsKept ==
    ReturnedObject =>
        \A f \in DOMAIN last.in.body.v :
           \/ Replaceable(f)
           \/ KeptField(f, last.in.body.v, last.out.batch[1].body.v)

\* the user enricher put the mapping fetched in the place of the user
\* sub-record of the input
UserReplaced ==
    /\ UserFetched
    /\ last.in.body = Dotted
    /\ last.out.batch[1].body.v["user"] # last.in.body.v["user"]

\* the threat intel enricher put the mapping fetched in the place of the
\* threat_intel an observable came with
IntelReplaced ==
    /\ IntelCall(last)
    /\ Returned(last)
    /\ \E i \in 1..Len(ObservablesOf(last.in.body)) :
          LET before == ObservablesOf(last.in.body)[i]
              after == ObservablesOf(last.out.batch[1].body)[i]
          IN /\ Carries(before)
             /\ Carries(after)
             /\ after.v["threat_intel"] # before.v["threat_intel"]

\* ------------------------------------------------------- claims on Close
\* C36: Close returns and leaves no listener: once server.Shutdown has
\* returned, no server of any Connect call is listening, so that every
\* ListenAndServe goroutine h.wg.Wait() waits for returns, also when Connect
\* was called again after a Read that timed out
C36_CloseReturns ==
    pcClose \in {"wait", "done"} =>
        \A s \in 1..Len(servers) : servers[s] # "serving"

\* Close waits in h.wg.Wait() for the server of the first Connect, which
\* nothing stops: it was called after a Read had timed out and the host had
\* connected again
CloseBlocked ==
    /\ pcClose = "wait"
    /\ wg = 1
    /\ servers = <<"serving", "stopped">>
    /\ gos = <<[pc |-> "serve", srv |-> 1], [pc |-> "done", srv |-> 2]>>
    /\ lastRead.result = "timeout"

\* Close has returned and left no listener although Connect was called
\* twice: the goroutine of the second call was the one that bound
CloseReturnedAfterReconnect ==
    /\ pcClose = "done"
    /\ Len(servers) = 2
    /\ wg = 0
    /\ \A s \in 1..Len(servers) : servers[s] # "serving"
    /\ \E g \in 1..2 : gos[g].srv = 2 /\ gos[3 - g].pc = "done"

\* C37: no handler is in its queueing loop, about to send on eventChan,
\* when the channel is closed, no handler has panicked on such a send, and
\* no Close call has closed the channel a second time
C37_NoSendOnClosed ==
    /\ \A h \in Handlers : ~(closed /\ hs[h].pc = "queue")
    /\ ~lastSub.panicked
    /\ pcClose # "panicked"

\* the handler of a request that was accepted before Close began sent on the
\* channel after Close had closed it
SentOnClosed ==
    /\ lastSub.panicked
    /\ closed
    /\ lastSub.req <= atClose.requests

\* the second Close call closed the closed channel
ClosedTwice == pcClose = "panicked" /\ closed

\* C38: every message Read has returned carries the bytes of one event that
\* a submission enqueued: the events delivered are events enqueued, and the
\* last message returned is not the empty-bodied message of no submission
C38_ReadDeliversEnqueued ==
    /\ \A i \in DOMAIN delivered : delivered[i] \in Range(enqueued)
    /\ lastRead.result = "msg" =>
          /\ lastRead.msg.body # NilBytes
          /\ \E i \in DOMAIN enqueued :
                /\ enqueued[i].body = lastRead.msg.body
                /\ enqueued[i].req = lastRead.msg.req
                /\ enqueued[i].idx = lastRead.msg.idx

\* Read returned a message with nil bytes from the closed and drained
\* channel, and no submission had enqueued anything
FabricatedMessage ==
    /\ closed
    /\ lastRead.result = "msg"
    /\ lastRead.msg.body = NilBytes
    /\ enqueued = <<>>
    /\ Len(delivered) >= 1

\* C39: delivery order is enqueue order: the events delivered so far,
\* followed by the events still buffered, are the events enqueued so far in
\* the order in which they were enqueued; and the events of one submission
\* are enqueued in array order, whatever another submission enqueues between
\* them
C39_DeliveryOrder ==
    /\ enqueued = delivered \o Buffered
    /\ \A r \in 1..MaxRequests :
          \A k \in DOMAIN Mine(r) : Mine(r)[k].idx = k

\* two batch submissions interleaved in the channel (an event of one between
\* the two events of the other), and events of both have been delivered
C39_Witness ==
    /\ Len(enqueued) >= 3
    /\ enqueued[1].req = enqueued[3].req
    /\ enqueued[2].req # enqueued[1].req
    /\ Len(delivered) >= 2

\* the consumer can still make the Read calls that reach the n-th event
\* enqueued: the calls left cover the events before it, and the reconnect a
\* timeout has asked for is still to be had
WithinReach(n) ==
    /\ Len(enqueued) >= n
    /\ Len(delivered) < n
    /\ reads + (n - Len(delivered))
          <= MaxReads + (IF ps[1].pc = "select" THEN 1 ELSE 0)
    /\ needConnect => (Len(servers) < MaxConnects /\ pcClose = "idle")

\* the n-th event enqueued has been returned by a Read call
DeliveredNth(n) ==
    /\ Len(delivered) >= n
    /\ Len(enqueued) >= n
    /\ delivered[n] = enqueued[n]

\* a Read that waits in its select while the channel holds an event stays so
\* until it returns, and it returns the event at the head, not the timeout
PollTakesBuffered ==
    [][(ps[1].pc = "select" /\ Len(eventChan) > 0)
       => IF ps'[1].pc = "select" THEN Len(eventChan') > 0
          ELSE /\ lastRead'.result = "msg"
               /\ lastRead'.msg.body = Head(eventChan).body
               /\ delivered' = Append(delivered, Unstamp(Head(eventChan)))]_vars

\* C40: with a consumer that keeps calling Read and never cancels, every
\* event in the channel that the consumer's calls can still reach is
\* eventually returned by a Read call; and a Read that finds the channel
\* non-empty returns an event, not the timeout result
C40_EventuallyDelivered ==
    /\ \A n \in 1..(MaxRequests * MaxBatchSize) :
          WithinReach(n) ~> DeliveredNth(n)
    /\ PollTakesBuffered

\* the consumer's Read calls are used up, the last one returned the timeout
\* result, nothing was ever delivered and the channel is full
TimedOutOnFullChannel ==
    /\ reads = MaxReads
    /\ ps[1].pc = "idle"
    /\ lastRead.result = "timeout"
    /\ delivered = <<>>
    /\ Len(eventChan) = ChanCap

====
